---- MODULE Spec2Model ----
(***************************************************************************)
(* Verification model of the route-optimizer backend (FastAPI service):    *)
(* the vehicle fleet service with its tenant scoping and validation, the   *)
(* permission guards, the sliding-window rate limiter behind the           *)
(* auth-context middleware, and the request-scoped database session.       *)
(***************************************************************************)
EXTENDS Integers, Sequences, FiniteSets, TLC

VARIABLES
    vehicles,       \* the rows of the vehicles table
    calculated_routes, \* rows of table calculated_routes
    pc,             \* position of each in-flight vehicle request
    sess,           \* per request: what its SQLAlchemy session holds before commit
    last,           \* the response of the request that completed last
    ops,            \* number of vehicle requests started (bounded)
    now,            \* time.time(), in seconds
    ip_requests,    \* RateLimitMiddleware.ip_requests: client ip -> deque of timestamps
    user_requests,  \* RateLimitMiddleware.user_requests: user id -> deque of timestamps
    rl_log,         \* history of the requests that passed the per-IP check
    rl_last,        \* outcome of the request the middleware pipeline handled last
    db_sessions,    \* get_db: one generator/session per request slot
    calc,           \* the route calculation in flight and its history save
    opt,            \* optimize_route: its request and environment, and its response
    cmp,            \* _compare_two_routes: its two routes, and its comparison
    toll,           \* _get_toll_cost_for_vehicle: its toll and vehicle, and its cost
    score,          \* _calculate_weighted_score: its arguments, and its total score
    users,          \* the rows of the users table, by user id
    tokens,         \* the user ids for which an unexpired access token is out
    auth_last,      \* the response to the authentication request handled last
    http,           \* the request that went through the middleware stack last, and its response
    stats,          \* a statistics request: its window of routes, and its response
    validation,     \* validate_complete_vehicle: its vehicle_data, and its result
    answer,         \* a route calculation: its response, and the row its save builds
    tasks           \* the background history save of each request slot of get_db

vars == <<vehicles, calculated_routes, pc, sess, last, ops, now, ip_requests,
          user_requests, rl_log, rl_last, db_sessions, calc,
          opt, cmp, toll, score, users, tokens, auth_last, http, stats,
          validation, answer, tasks>>

vehicleVars == <<vehicles, calculated_routes, pc, sess, last, ops>>
rateVars == <<now, ip_requests, user_requests, rl_log, rl_last>>
dbVars == <<db_sessions>>
authVars == <<users, tokens, auth_last>>
\* the variables of the services that the vehicle and route requests never touch
otherVars == <<score, authVars, http, stats, validation, answer, tasks>>
pureVars == <<opt, cmp, toll, otherVars>>
routeVars == <<calc, pureVars>>

NULL == "NULL"

-----------------------------------------------------------------------------
(* Bounds of the model *)

MaxOps == 2
NumProcs == 2

Procs == 1..NumProcs

-----------------------------------------------------------------------------
(* Users, roles and permissions *)

ADMIN == "admin"
OPERATOR == "operator"

Companies == {"c1", "c2"}
\* a company id no companies row carries
UnknownCompany == "c9"

Users ==
    { [id |-> "u_admin", role |-> ADMIN,    company_id |-> "c1", is_active |-> TRUE],
      [id |-> "u_op1",   role |-> OPERATOR, company_id |-> "c1", is_active |-> TRUE],
      [id |-> "u_op2",   role |-> OPERATOR, company_id |-> "c2", is_active |-> TRUE],
      [id |-> "u_off",   role |-> OPERATOR, company_id |-> "c2", is_active |-> FALSE] }

AdminPermissions ==
    { "create_user", "read_user", "update_user", "delete_user",
      "create_company", "read_company", "update_company", "delete_company",
      "create_vehicle", "read_vehicle", "update_vehicle", "delete_vehicle",
      "calculate_route", "read_route", "delete_route",
      "create_fuel_price", "read_fuel_price", "update_fuel_price", "delete_fuel_price",
      "create_toll", "read_toll", "update_toll", "delete_toll",
      "generate_report", "admin_panel", "view_system_stats", "manage_system_data" }

OperatorPermissionsLeaky ==
    { "read_user", "update_user", "read_company",
      "create_vehicle", "read_vehicle", "update_vehicle", "delete_vehicle",
      "calculate_route", "read_route", "read_fuel_price", "read_toll",
      "update_toll", "generate_report" }

OperatorPermissions ==
    { "read_user", "update_user", "read_company",
      "create_vehicle", "read_vehicle", "update_vehicle", "delete_vehicle",
      "calculate_route", "read_route", "read_fuel_price", "read_toll",
      "generate_report" }

ROLE_PERMISSIONS == [r \in {ADMIN, OPERATOR} |->
    IF r = ADMIN THEN AdminPermissions ELSE OperatorPermissions]

get_user_permissions(role) ==
    IF role \in DOMAIN ROLE_PERMISSIONS THEN ROLE_PERMISSIONS[role] ELSE {}

has_permission(role, permission) == permission \in get_user_permissions(role)

has_any_permission(role, permissions) ==
    \E p \in permissions : p \in get_user_permissions(role)

has_all_permissions(role, permissions) ==
    \A p \in permissions : p \in get_user_permissions(role)

\* get_current_active_user letting every resolved user pass
get_current_active_user_unchecked(u) == 0

\* get_current_active_user: 400 for an inactive user, else the user passes (0)
get_current_active_user(u) == IF ~u.is_active THEN 400 ELSE 0

\* decorators.require_permission(permission) as a dependency on the active user
require_permission(u, permission) ==
    IF get_current_active_user(u) # 0 THEN get_current_active_user(u)
    ELSE IF ~has_permission(u.role, permission) THEN 403 ELSE 0

require_any_permission(u, permissions) ==
    IF get_current_active_user(u) # 0 THEN get_current_active_user(u)
    ELSE IF ~has_any_permission(u.role, permissions) THEN 403 ELSE 0

get_current_admin_user(u) ==
    IF get_current_active_user(u) # 0 THEN get_current_active_user(u)
    ELSE IF u.role # ADMIN THEN 403 ELSE 0

\* permissions.require_admin_role(user): called with an already resolved user
require_admin_role(u) ==
    IF u.id = NULL THEN 401
    ELSE IF u.role # ADMIN THEN 403 ELSE 0

require_admin(u) == require_permission(u, "admin_panel")

require_vehicle_access(u) ==
    require_any_permission(u, {"create_vehicle", "read_vehicle",
                               "update_vehicle", "delete_vehicle"})

require_route_access(u) ==
    require_any_permission(u, {"calculate_route", "read_route"})

require_fuel_price_management(u) ==
    require_any_permission(u, {"create_fuel_price", "update_fuel_price",
                               "delete_fuel_price"})

require_toll_management(u) ==
    require_any_permission(u, {"create_toll", "update_toll", "delete_toll"})

require_system_management(u) == require_permission(u, "manage_system_data")

AdminGuards == { "require_admin", "require_fuel_price_management",
                 "require_toll_management", "require_system_management",
                 "get_current_admin_user", "require_admin_role" }

RunGuard(g, u) ==
    CASE g = "require_admin" -> require_admin(u)
      [] g = "require_fuel_price_management" -> require_fuel_price_management(u)
      [] g = "require_toll_management" -> require_toll_management(u)
      [] g = "require_system_management" -> require_system_management(u)
      [] g = "get_current_admin_user" -> get_current_admin_user(u)
      [] g = "require_admin_role" -> require_admin_role(u)
      [] g = "require_vehicle_access" -> require_vehicle_access(u)
      [] g = "require_route_access" -> require_route_access(u)

-----------------------------------------------------------------------------
(* License plates: strings are sequences of one-character strings *)

UpperOf == [c \in {"a", "b", "c", "d"} |->
    CASE c = "a" -> "A" [] c = "b" -> "B" [] c = "c" -> "C" [] c = "d" -> "D"]

UpperLetters == {"A", "B", "C", "D"}
Digits == {"1", "2", "3"}

\* str.upper(), character by character
upper(s) == [i \in 1..Len(s) |-> IF s[i] \in DOMAIN UpperOf THEN UpperOf[s[i]] ELSE s[i]]

RECURSIVE lstrip(_)
lstrip(s) == IF s # <<>> /\ Head(s) = " " THEN lstrip(Tail(s)) ELSE s

RECURSIVE rstrip(_)
rstrip(s) == IF s # <<>> /\ s[Len(s)] = " " THEN rstrip(SubSeq(s, 1, Len(s) - 1)) ELSE s

\* str.strip()
strip(s) == rstrip(lstrip(s))

\* str.replace(ch, '')
RECURSIVE remove(_, _)
remove(s, ch) ==
    IF s = <<>> THEN <<>>
    ELSE IF Head(s) = ch THEN remove(Tail(s), ch)
    ELSE <<Head(s)>> \o remove(Tail(s), ch)

IsLetters(s) == \A i \in 1..Len(s) : s[i] \in UpperLetters
IsDigits(s) == \A i \in 1..Len(s) : s[i] \in Digits

\* ARGENTINA_PLATE_PATTERNS: ABC123, AB123CD, 123ABC
MatchesPlatePattern(s) ==
    \/ Len(s) = 6 /\ IsLetters(SubSeq(s, 1, 3)) /\ IsDigits(SubSeq(s, 4, 6))
    \/ Len(s) = 7 /\ IsLetters(SubSeq(s, 1, 2)) /\ IsDigits(SubSeq(s, 3, 5))
                  /\ IsLetters(SubSeq(s, 6, 7))
    \/ Len(s) = 6 /\ IsDigits(SubSeq(s, 1, 3)) /\ IsLetters(SubSeq(s, 4, 6))

\* the normalisation step of validate_license_plate
normalize_plate(s) == remove(remove(upper(strip(s)), " "), "-")

\* what validate_license_plate yields where it raises HTTPException
PlateError == <<>>

\* validate_license_plate: the normalized plate, or PlateError where it raises
validate_license_plate(s) ==
    IF s = <<>> \/ strip(s) = <<>> THEN PlateError
    ELSE IF MatchesPlatePattern(normalize_plate(s)) THEN normalize_plate(s)
    ELSE PlateError

PLATE_ABC123 == <<"A", "B", "C", "1", "2", "3">>
PLATE_AB123CD == <<"A", "B", "1", "2", "3", "C", "D">>
PLATE_123ABC == <<"1", "2", "3", "A", "B", "C">>

\* license plates as clients send them: the plate of a stored vehicle, one new
\* plate in two spellings, and a string that matches no pattern
RawPlates ==
    { <<"a", "b", "c", "-", "1", "2", "3">>,
      <<" ", "1", "2", "3", " ", "a", "b", "c", " ">>,
      PLATE_123ABC,
      <<"A", "B", "1", "2">> }

-----------------------------------------------------------------------------
(* Weights *)

WEIGHT_MIN == 500
WEIGHT_MAX == 50000

\* None in an integer column or argument
NONE == 0 - 1

\* weights as clients send them (kg); 400 is below WEIGHT_RANGE
Weights == {400, 1000, 2000}

InWeightRange(w) == WEIGHT_MIN <= w /\ w <= WEIGHT_MAX

\* dict.get(key): None for a missing key
Get(d, k) == IF k \in DOMAIN d THEN d[k] ELSE NONE

\* merge of two dicts, the right one winning (dict.update)
Merge(d, e) == [k \in DOMAIN d \cup DOMAIN e |-> IF k \in DOMAIN e THEN e[k] ELSE d[k]]

\* the empty dict
EmptyDict == <<>>

\* HEIGHT_RANGE, WIDTH_RANGE and LENGTH_RANGE, in decimetres
HEIGHT_MIN == 15
HEIGHT_MAX == 45
WIDTH_MIN == 15
WIDTH_MAX == 30
LENGTH_MIN == 30
LENGTH_MAX == 250

\* validate_dimensions(height, width, length): ok is FALSE where it raises, and
\* about names the field its message is about
validate_dimensions(height, width, length) ==
    IF height # NONE /\ ~(HEIGHT_MIN <= height /\ height <= HEIGHT_MAX)
        THEN [ok |-> FALSE, about |-> "height", validated |-> EmptyDict]
    ELSE IF width # NONE /\ ~(WIDTH_MIN <= width /\ width <= WIDTH_MAX)
        THEN [ok |-> FALSE, about |-> "width", validated |-> EmptyDict]
    ELSE IF length # NONE /\ ~(LENGTH_MIN <= length /\ length <= LENGTH_MAX)
        THEN [ok |-> FALSE, about |-> "length", validated |-> EmptyDict]
    ELSE [ok |-> TRUE, about |-> "none",
          validated |->
            [k \in {f \in {"height", "width", "length"} :
                       (CASE f = "height" -> height [] f = "width" -> width
                          [] f = "length" -> length) # NONE}
               |-> CASE k = "height" -> height [] k = "width" -> width
                     [] k = "length" -> length]]

\* validate_weights(max_weight, empty_weight): ok is FALSE where it raises, and
\* about names the field its message is about
validate_weights(max_weight, empty_weight) ==
    IF max_weight # NONE /\ ~InWeightRange(max_weight)
        THEN [ok |-> FALSE, about |-> "max_weight", validated |-> EmptyDict]
    ELSE IF empty_weight # NONE /\ ~InWeightRange(empty_weight)
        THEN [ok |-> FALSE, about |-> "empty_weight", validated |-> EmptyDict]
    ELSE IF max_weight # NONE /\ empty_weight # NONE /\ empty_weight >= max_weight
        THEN [ok |-> FALSE, about |-> "empty_weight", validated |-> EmptyDict]
    ELSE [ok |-> TRUE, about |-> "none",
          validated |->
            [k \in {f \in {"max_weight", "empty_weight"} :
                       IF f = "max_weight" THEN max_weight # NONE ELSE empty_weight # NONE}
               |-> IF k = "max_weight" THEN max_weight ELSE empty_weight]]

\* validate_complete_vehicle(vehicle_data): only the keys it validates are
\* copied into the result; errors are aggregated and raised together as one 400
validate_complete_vehicle(vehicle_data) ==
    LET hasPlate == "license_plate" \in DOMAIN vehicle_data
        plate == IF hasPlate THEN validate_license_plate(vehicle_data["license_plate"])
                 ELSE PlateError
        plateOk == hasPlate => plate # PlateError
        w == validate_weights(Get(vehicle_data, "max_weight"),
                              Get(vehicle_data, "empty_weight"))
        dimensions == validate_dimensions(Get(vehicle_data, "height"),
                                          Get(vehicle_data, "width"),
                                          Get(vehicle_data, "length"))
        errors == (IF plateOk THEN {} ELSE {"License plate"})
                      \cup (IF dimensions.ok THEN {} ELSE {"Dimensions"})
                      \cup (IF w.ok THEN {} ELSE {"Weights"})
        \* the fields the messages of validation_errors are about
        about == (IF plateOk THEN {} ELSE {"license_plate"})
                     \cup (IF dimensions.ok THEN {} ELSE {dimensions.about})
                     \cup (IF w.ok THEN {} ELSE {w.about})
    IN  IF errors # {}
            THEN [status |-> 400, errors |-> errors, about |-> about,
                  validated |-> EmptyDict]
        ELSE [status |-> 0, errors |-> {}, about |-> {},
              validated |-> Merge(Merge(IF hasPlate THEN [k \in {"license_plate"} |-> plate]
                                        ELSE EmptyDict,
                                        dimensions.validated),
                                  w.validated)]

\* vehicle_data dicts for validate_complete_vehicle: each key absent, valid or
\* out of its range
VehicleData ==
    { Merge(Merge(Merge(Merge(p, mw), ew), h), wd) :
        p \in {EmptyDict} \cup {[k \in {"license_plate"} |-> x] :
                                    x \in {PLATE_123ABC, <<"A", "B", "1", "2">>}},
        mw \in {EmptyDict} \cup {[k \in {"max_weight"} |-> x] : x \in {400, 2000}},
        ew \in {EmptyDict} \cup {[k \in {"empty_weight"} |-> x] : x \in {400, 1000}},
        h \in {EmptyDict} \cup {[k \in {"height"} |-> x] : x \in {100, 30}},
        wd \in {EmptyDict} \cup {[k \in {"width"} |-> x] : x \in {10, 20}} }

\* the fields of vehicle_data whose value is invalid on its own
InvalidFields(vehicle_data) ==
    {f \in DOMAIN vehicle_data :
        CASE f = "license_plate" -> validate_license_plate(vehicle_data[f]) = PlateError
          [] f = "max_weight" -> ~validate_weights(vehicle_data[f], NONE).ok
          [] f = "empty_weight" -> ~validate_weights(NONE, vehicle_data[f]).ok
          [] f = "height" -> ~validate_dimensions(vehicle_data[f], NONE, NONE).ok
          [] f = "width" -> ~validate_dimensions(NONE, vehicle_data[f], NONE).ok
          [] f = "length" -> ~validate_dimensions(NONE, NONE, vehicle_data[f]).ok
          [] OTHER -> FALSE}

-----------------------------------------------------------------------------
(* The vehicles table and the requests of the vehicles router *)

\* ids of the rows present at start, an id no row carries, ids for new rows
VehicleIds == {"v1", "v2"}
MissingId == "v9"
NewIds == {"n1", "n2"}

\* what a lookup yields when there is no row
NoVehicle == [id |-> NULL, company_id |-> NULL, license_plate |-> <<>>,
              max_weight |-> NONE, empty_weight |-> NONE, is_active |-> FALSE]

InitVehicles ==
    { [id |-> "v1", company_id |-> "c1", license_plate |-> PLATE_ABC123,
       max_weight |-> 2000, empty_weight |-> 1000, is_active |-> TRUE],
      [id |-> "v2", company_id |-> "c2", license_plate |-> PLATE_AB123CD,
       max_weight |-> NONE, empty_weight |-> NONE, is_active |-> TRUE] }

\* db.query(Vehicle).filter(Vehicle.id == vehicle_id).first()
QueryById(id) ==
    IF \E r \in vehicles : r.id = id THEN CHOOSE r \in vehicles : r.id = id ELSE NoVehicle

\* VehicleCreate requests: company_id, license_plate, max_weight, empty_weight
CreateRequests ==
    [company_id : Companies \cup {UnknownCompany}, license_plate : RawPlates,
     max_weight : {NONE, 2000}, empty_weight : {NONE, 1000}]

\* VehicleUpdate requests as dict(exclude_unset=True): only the supplied keys
UpdateRequests ==
    {EmptyDict}
    \cup {[k \in {"license_plate"} |-> p] : p \in RawPlates}
    \cup {[k \in {"max_weight"} |-> w] : w \in Weights}
    \cup {[k \in {"empty_weight"} |-> w] : w \in Weights}
    \cup {[max_weight |-> 2000, empty_weight |-> 1000],
          [max_weight |-> 1000, empty_weight |-> 2000]}
    \cup {[k \in {"is_active"} |-> FALSE]}

\* the pydantic validators of VehicleBase / VehicleUpdate: FALSE means 422
SchemaAccepts(d) ==
    /\ "license_plate" \in DOMAIN d => validate_license_plate(d["license_plate"]) # PlateError
    /\ validate_weights(Get(d, "max_weight"), Get(d, "empty_weight")).ok

\* the validated model: the license_plate validator returns the normalized plate
SchemaOutput(d) ==
    [k \in DOMAIN d |-> IF k = "license_plate" THEN validate_license_plate(d[k]) ELSE d[k]]

\* VehicleCreate.dict(): every field is present, None where not supplied
CreateDict(req) == SchemaOutput(req)

Response(op, u, status, companies, target) ==
    [op |-> op, user |-> u.id, role |-> u.role, user_company |-> u.company_id,
     status |-> status, companies |-> companies, target |-> target, arg |-> NULL]

NoResponse == [op |-> "none", user |-> NULL, role |-> NULL, user_company |-> NULL,
               status |-> 0, companies |-> {}, target |-> "none", arg |-> NULL]

Idle == [op |-> "none"]

\* how the looked-up vehicle relates to the caller
TargetOf(id, u) ==
    IF QueryById(id).id = NULL THEN "absent"
    ELSE IF QueryById(id).company_id = u.company_id THEN "own" ELSE "other"

\* VehicleService.get_vehicle with the tenant check answering 404
get_vehicle_hiding(vehicle_id, current_user) ==
    LET vehicle == QueryById(vehicle_id)
    IN  IF vehicle.id = NULL THEN [status |-> 404, vehicle |-> NoVehicle]
        ELSE IF current_user.role # ADMIN /\ current_user.company_id # vehicle.company_id
            THEN [status |-> 404, vehicle |-> NoVehicle]
        ELSE [status |-> 0, vehicle |-> vehicle]

\* VehicleService.get_vehicle: status 0 stands for the returned vehicle
get_vehicle(vehicle_id, current_user) ==
    LET vehicle == QueryById(vehicle_id)
    IN  IF vehicle.id = NULL THEN [status |-> 404, vehicle |-> NoVehicle]
        ELSE IF current_user.role # ADMIN /\ current_user.company_id # vehicle.company_id
            THEN [status |-> 403, vehicle |-> NoVehicle]
        ELSE [status |-> 0, vehicle |-> vehicle]

\* VehicleService.get_vehicles honouring the company_id filter for every caller
get_vehicles_unscoped(current_user, company_id, is_active) ==
    LET scoped == IF company_id # NULL
                  THEN {r \in vehicles : r.company_id = company_id}
                  ELSE IF current_user.role # ADMIN
                  THEN {r \in vehicles : r.company_id = current_user.company_id}
                  ELSE vehicles
    IN  IF is_active # NULL THEN {r \in scoped : r.is_active = (is_active = "true")}
        ELSE scoped

\* VehicleService.get_vehicles: the rows the query selects (before pagination);
\* is_active is NULL (no filter), "true" or "false"
get_vehicles(current_user, company_id, is_active) ==
    LET scoped == IF current_user.role # ADMIN
                  THEN {r \in vehicles : r.company_id = current_user.company_id}
                  ELSE IF company_id # NULL
                  THEN {r \in vehicles : r.company_id = company_id}
                  ELSE vehicles
    IN  IF is_active # NULL THEN {r \in scoped : r.is_active = (is_active = "true")}
        ELSE scoped

\* VehicleService.get_company_vehicles: status 0 stands for the returned list
get_company_vehicles(company_id, current_user) ==
    IF current_user.role # ADMIN /\ current_user.company_id # company_id
    THEN [status |-> 403, vehicles |-> {}]
    ELSE [status |-> 0,
          vehicles |-> {r \in vehicles : r.company_id = company_id /\ r.is_active}]

CompaniesOf(rows) == {r.company_id : r \in rows}

\* GET /vehicles/{vehicle_id}
GetVehicle(p, u, id) ==
    /\ pc[p] = "idle"
    /\ last' = IF require_vehicle_access(u) # 0
               THEN Response("get_vehicle", u, require_vehicle_access(u), {}, "none")
               ELSE IF get_vehicle(id, u).status # 0
               THEN Response("get_vehicle", u, get_vehicle(id, u).status, {}, TargetOf(id, u))
               ELSE Response("get_vehicle", u, 200,
                             {get_vehicle(id, u).vehicle.company_id}, TargetOf(id, u))
    /\ UNCHANGED <<vehicles, calculated_routes, pc, sess, ops, rateVars, dbVars, routeVars>>

\* GET /vehicles/
GetVehicles(p, u, company_id, is_active) ==
    /\ pc[p] = "idle"
    /\ last' = [(IF require_vehicle_access(u) # 0
                 THEN Response("get_vehicles", u, require_vehicle_access(u), {}, "none")
                 ELSE Response("get_vehicles", u, 200,
                               CompaniesOf(get_vehicles(u, company_id, is_active)), "none"))
                EXCEPT !.arg = company_id]
    /\ UNCHANGED <<vehicles, calculated_routes, pc, sess, ops, rateVars, dbVars, routeVars>>

\* GET /vehicles/company/{company_id}
GetCompanyVehicles(p, u, company_id) ==
    /\ pc[p] = "idle"
    /\ last' = [(IF require_vehicle_access(u) # 0
                 THEN Response("get_company_vehicles", u, require_vehicle_access(u), {}, "none")
                 ELSE IF get_company_vehicles(company_id, u).status # 0
                 THEN Response("get_company_vehicles", u,
                               get_company_vehicles(company_id, u).status, {}, "none")
                 ELSE Response("get_company_vehicles", u, 200,
                               CompaniesOf(get_company_vehicles(company_id, u).vehicles),
                               "none"))
                EXCEPT !.arg = company_id]
    /\ UNCHANGED <<vehicles, calculated_routes, pc, sess, ops, rateVars, dbVars, routeVars>>

\* POST /vehicles/calculate-fuel-cost: the vehicle's consumption is read through get_vehicle
CalculateFuelCost(p, u, id) ==
    /\ pc[p] = "idle"
    /\ last' = IF require_vehicle_access(u) # 0
               THEN Response("calculate_fuel_cost", u, require_vehicle_access(u), {}, "none")
               ELSE IF get_vehicle(id, u).status # 0
               THEN Response("calculate_fuel_cost", u, get_vehicle(id, u).status, {},
                             TargetOf(id, u))
               ELSE Response("calculate_fuel_cost", u, 200,
                             {get_vehicle(id, u).vehicle.company_id}, TargetOf(id, u))
    /\ UNCHANGED <<vehicles, calculated_routes, pc, sess, ops, rateVars, dbVars, routeVars>>

\* a dependency of an admin-only endpoint resolving its caller
AdminGuardRequest(p, u, g) ==
    /\ pc[p] = "idle"
    /\ g \in AdminGuards
    /\ last' = Response(g, u, IF RunGuard(g, u) = 0 THEN 200 ELSE RunGuard(g, u), {}, "none")
    /\ UNCHANGED <<vehicles, calculated_routes, pc, sess, ops, rateVars, dbVars, routeVars>>

\* Vehicle(**validated_data): columns not named keep their defaults
\* (company_id has none, is_active defaults to True)
NewVehicle(validated_data) ==
    [id |-> NULL,
     company_id |-> IF "company_id" \in DOMAIN validated_data
                    THEN validated_data["company_id"] ELSE NULL,
     license_plate |-> IF "license_plate" \in DOMAIN validated_data
                       THEN validated_data["license_plate"] ELSE <<>>,
     max_weight |-> Get(validated_data, "max_weight"),
     empty_weight |-> Get(validated_data, "empty_weight"),
     is_active |-> TRUE]

\* db.query(Vehicle).filter(Vehicle.license_plate == plate).first() finds a row
PlateExists(plate) == \E r \in vehicles : r.license_plate = plate

\* ... .filter(and_(Vehicle.license_plate == plate, Vehicle.id != vehicle_id)).first()
PlateExistsElsewhere(plate, vehicle_id) ==
    \E r \in vehicles : r.license_plate = plate /\ r.id # vehicle_id

\* VehicleService.create_vehicle up to db.add(db_vehicle): the status it raises,
\* or 0 and the object added to the session
create_vehicle(vehicle_data, current_user) ==
    LET vehicle_dict == CreateDict(vehicle_data)
        v == validate_complete_vehicle(vehicle_dict)
    IN  IF vehicle_data.company_id \notin Companies
            THEN [status |-> 404, db_vehicle |-> NoVehicle]
        ELSE IF current_user.role # ADMIN /\ current_user.company_id # vehicle_data.company_id
            THEN [status |-> 403, db_vehicle |-> NoVehicle]
        ELSE IF v.status # 0
            THEN [status |-> 400, db_vehicle |-> NoVehicle]
        ELSE IF PlateExists(v.validated["license_plate"])
            THEN [status |-> 400, db_vehicle |-> NoVehicle]
        ELSE [status |-> 0, db_vehicle |-> NewVehicle(v.validated)]

\* POST /vehicles/ up to the commit
CreateBegin(p, u, req) ==
    /\ pc[p] = "idle"
    /\ ops < MaxOps
    /\ LET guard == require_vehicle_access(u)
           r == create_vehicle(req, u)
       IN  IF guard # 0 THEN
               /\ last' = Response("create_vehicle", u, guard, {}, "none")
               /\ UNCHANGED <<pc, sess, ops>>
           ELSE IF ~SchemaAccepts(req) THEN
               /\ last' = Response("create_vehicle", u, 422, {}, "none")
               /\ UNCHANGED <<pc, sess, ops>>
           ELSE IF r.status # 0 THEN
               /\ last' = Response("create_vehicle", u, r.status, {}, "none")
               /\ UNCHANGED <<pc, sess, ops>>
           ELSE
               /\ pc' = [pc EXCEPT ![p] = "commit"]
               /\ sess' = [sess EXCEPT ![p] =
                     [op |-> "create", user |-> u, company_id |-> req.company_id,
                      db_vehicle |-> r.db_vehicle]]
               /\ last' = NoResponse
               /\ ops' = ops + 1
    /\ UNCHANGED <<vehicles, calculated_routes, rateVars, dbVars, routeVars>>

\* VehicleService.update_vehicle up to the commit: the status it raises, or 0 with
\* the loaded vehicle and the validated fields set on it
update_vehicle(vehicle_id, update_data, current_user) ==
    LET g == get_vehicle(vehicle_id, current_user)
        v == validate_complete_vehicle(update_data)
    IN  IF g.status # 0
            THEN [status |-> g.status, vehicle |-> NoVehicle, changes |-> EmptyDict]
        ELSE IF DOMAIN update_data = {}
            THEN [status |-> 0, vehicle |-> g.vehicle, changes |-> EmptyDict]
        ELSE IF v.status # 0
            THEN [status |-> 400, vehicle |-> NoVehicle, changes |-> EmptyDict]
        ELSE IF /\ "license_plate" \in DOMAIN v.validated
                /\ v.validated["license_plate"] # g.vehicle.license_plate
                /\ PlateExistsElsewhere(v.validated["license_plate"], vehicle_id)
            THEN [status |-> 400, vehicle |-> NoVehicle, changes |-> EmptyDict]
        ELSE [status |-> 0, vehicle |-> g.vehicle, changes |-> v.validated]

\* PUT /vehicles/{vehicle_id} up to the commit
UpdateBegin(p, u, id, req) ==
    /\ pc[p] = "idle"
    /\ ops < MaxOps
    /\ LET guard == require_vehicle_access(u)
           r == update_vehicle(id, SchemaOutput(req), u)
       IN  IF guard # 0 THEN
               /\ last' = Response("update_vehicle", u, guard, {}, "none")
               /\ UNCHANGED <<pc, sess, ops>>
           ELSE IF ~SchemaAccepts(req) THEN
               /\ last' = Response("update_vehicle", u, 422, {}, "none")
               /\ UNCHANGED <<pc, sess, ops>>
           ELSE IF r.status # 0 THEN
               /\ last' = Response("update_vehicle", u, r.status, {}, TargetOf(id, u))
               /\ UNCHANGED <<pc, sess, ops>>
           ELSE
               /\ pc' = [pc EXCEPT ![p] = "commit"]
               /\ sess' = [sess EXCEPT ![p] =
                     [op |-> "update", user |-> u, vehicle |-> r.vehicle,
                      changes |-> r.changes, update_data |-> SchemaOutput(req)]]
               /\ last' = NoResponse
               /\ ops' = ops + 1
    /\ UNCHANGED <<vehicles, calculated_routes, rateVars, dbVars, routeVars>>

\* what delete_vehicle leaves in the session when it marks the vehicle inactive
\* (vehicle.is_active = False) and when it deletes it (db.delete(vehicle))
\* the calculated_routes rows the database holds: v1 has one route in the
\* history, v2 none
InitCalculatedRoutes ==
    { [id |-> "r1", user_id |-> "u_op1", vehicle_id |-> "v1", company_id |-> "c1"] }

\* the count query of delete_vehicle: the CalculatedRoute rows of the vehicle
route_count(vehicle_id) ==
    Cardinality({r \in calculated_routes : r.vehicle_id = vehicle_id})

SoftDelete(vehicle) ==
    [status |-> 0, op |-> "soft_delete", vehicle |-> vehicle,
     changes |-> [k \in {"is_active"} |-> FALSE]]
HardDelete(vehicle) ==
    [status |-> 0, op |-> "hard_delete", vehicle |-> vehicle, changes |-> EmptyDict]

\* VehicleService.delete_vehicle doing what its docstring says: always soft
delete_vehicle_always_soft(vehicle_id, current_user) ==
    LET g == get_vehicle(vehicle_id, current_user)
    IN  IF g.status # 0
            THEN [status |-> g.status, op |-> "none", vehicle |-> NoVehicle,
                  changes |-> EmptyDict]
        ELSE SoftDelete(g.vehicle)

\* VehicleService.delete_vehicle up to its commit: soft when CalculatedRoute
\* rows reference the vehicle, hard otherwise
delete_vehicle(vehicle_id, current_user) ==
    LET g == get_vehicle(vehicle_id, current_user)
    IN  IF g.status # 0
            THEN [status |-> g.status, op |-> "none", vehicle |-> NoVehicle,
                  changes |-> EmptyDict]
        ELSE IF route_count(vehicle_id) > 0 THEN SoftDelete(g.vehicle)
        ELSE HardDelete(g.vehicle)

\* DELETE /vehicles/{vehicle_id} up to the commit
DeleteBegin(p, u, id) ==
    /\ pc[p] = "idle"
    /\ ops < MaxOps
    /\ LET guard == require_vehicle_access(u)
           r == delete_vehicle(id, u)
       IN  IF guard # 0 THEN
               /\ last' = Response("delete_vehicle", u, guard, {}, "none")
               /\ UNCHANGED <<pc, sess, ops>>
           ELSE IF r.status # 0 THEN
               /\ last' = Response("delete_vehicle", u, r.status, {}, TargetOf(id, u))
               /\ UNCHANGED <<pc, sess, ops>>
           ELSE
               /\ pc' = [pc EXCEPT ![p] = "commit"]
               /\ sess' = [sess EXCEPT ![p] =
                     [op |-> r.op, user |-> u, vehicle |-> r.vehicle,
                      changes |-> r.changes]]
               /\ last' = NoResponse
               /\ ops' = ops + 1
    /\ UNCHANGED <<vehicles, calculated_routes, rateVars, dbVars, routeVars>>

\* the UNIQUE index on vehicles.license_plate switched off
UniqueViolationOff(plate, vehicle_id) == FALSE

\* the UNIQUE index on vehicles.license_plate rejects the written plate
UniqueViolation(plate, vehicle_id) ==
    \E r \in vehicles : r.license_plate = plate /\ r.id # vehicle_id

\* the NOT NULL columns of the vehicles table reject the row
NotNullViolation(row) == row.company_id = NULL \/ row.license_plate = <<>>

\* the attributes whose value differs from the loaded one: the columns of the UPDATE
Dirty(vehicle, changes) == {k \in DOMAIN changes : changes[k] # vehicle[k]}

\* the row after the UPDATE of the dirty columns
Updated(row, changes, dirty) ==
    [k \in DOMAIN row |-> IF k \in dirty THEN changes[k] ELSE row[k]]

\* self.db.commit() (and db.refresh) of the request of p: the flush is checked by
\* a unit of work that deletes the CalculatedRoute rows of a vehicle it deletes
\* or deactivates
flush_cascading(s, rows) ==
    IF s.op \in {"soft_delete", "hard_delete"}
        THEN [ok |-> TRUE, calculated_routes |-> {r \in rows : r.vehicle_id # s.vehicle.id}]
    ELSE [ok |-> TRUE, calculated_routes |-> rows]

\* what the flush of session s does to table calculated_routes.  Only
\* db.delete(vehicle) reaches it: Vehicle.calculated_routes has no delete
\* cascade, so the unit of work loads the vehicle's CalculatedRoute rows and
\* sets their vehicle_id to NULL, which the NOT NULL column refuses; with no
\* such row the DELETE of the vehicle goes through and has nothing to cascade to
flush(s, rows) ==
    IF s.op = "hard_delete"
        THEN [ok |-> {r \in rows : r.vehicle_id = s.vehicle.id} = {},
              calculated_routes |-> rows]
    ELSE [ok |-> TRUE, calculated_routes |-> rows]

\* the table's constraints; an IntegrityError or StaleDataError surfaces as 500
Commit(p) ==
    /\ pc[p] = "commit"
    /\ pc' = [pc EXCEPT ![p] = "idle"]
    /\ sess' = [sess EXCEPT ![p] = Idle]
    /\ LET s == sess[p]
           u == s.user
           tgt == IF s.op = "create" THEN "none"
                  ELSE IF s.vehicle.company_id = u.company_id THEN "own" ELSE "other"
       IN  IF s.op = "create" THEN
               IF \/ NotNullViolation(s.db_vehicle)
                  \/ UniqueViolation(s.db_vehicle.license_plate, NULL)
               THEN /\ last' = Response("create_vehicle", u, 500, {}, "none")
                    /\ UNCHANGED <<vehicles, calculated_routes>>
               ELSE /\ \E nid \in NewIds : \A r \in vehicles : r.id # nid
                    /\ LET nid == CHOOSE n \in NewIds : \A r \in vehicles : r.id # n
                       IN  vehicles' = vehicles \cup {[s.db_vehicle EXCEPT !.id = nid]}
                    /\ UNCHANGED calculated_routes
                    /\ last' = Response("create_vehicle", u, 201,
                                        {s.db_vehicle.company_id}, "none")
           ELSE IF s.op = "hard_delete" THEN
               LET f == flush(s, calculated_routes)
               IN  IF ~f.ok THEN
                       /\ last' = Response("delete_vehicle", u, 500, {}, tgt)
                       /\ UNCHANGED <<vehicles, calculated_routes>>
                   ELSE
                       /\ vehicles' = {r \in vehicles : r.id # s.vehicle.id}
                       /\ calculated_routes' = f.calculated_routes
                       /\ last' = Response("delete_vehicle", u, 204,
                                           CompaniesOf({r \in vehicles : r.id = s.vehicle.id}),
                                           tgt)
           ELSE
               LET dirty == Dirty(s.vehicle, s.changes)
                   cur == QueryById(s.vehicle.id)
                   name == IF s.op = "update" THEN "update_vehicle" ELSE "delete_vehicle"
                   okStatus == IF s.op = "update" THEN 200 ELSE 204
               IN  IF cur.id = NULL /\ (dirty # {} \/ s.op = "update") THEN
                       /\ last' = Response(name, u, 500, {}, tgt)
                       /\ UNCHANGED <<vehicles, calculated_routes>>
                   ELSE IF dirty = {} THEN
                       /\ last' = Response(name, u, okStatus, CompaniesOf({cur}) \ {NULL}, tgt)
                       /\ UNCHANGED <<vehicles, calculated_routes>>
                   ELSE IF /\ "license_plate" \in dirty
                           /\ UniqueViolation(s.changes["license_plate"], cur.id)
                   THEN
                       /\ last' = Response(name, u, 500, {}, tgt)
                       /\ UNCHANGED <<vehicles, calculated_routes>>
                   ELSE
                       /\ vehicles' = (vehicles \ {cur}) \cup {Updated(cur, s.changes, dirty)}
                       /\ calculated_routes' = flush(s, calculated_routes).calculated_routes
                       /\ last' = Response(name, u, okStatus, {cur.company_id}, tgt)
    /\ UNCHANGED <<ops, rateVars, dbVars, routeVars>>

------------------------------------------------------------------------------------------------------------------------------------------------
(* The middleware pipeline: auth context and rate limiting *)

\* RateLimitMiddleware.window_size
window_size == 60

\* requests_per_minute the middleware is constructed with
RequestsPerMinute == 2

\* the readings of time.time() the model follows: a start, the last instant of
\* the window that opened there and the first instant past it
Instants == {0, window_size, window_size + 1}
\* how many requests reach the rate limiter's queues
MaxRequests == 4

ClientIps == {"ipA", "ipB"}
UserIds == {"u1"}

\* request paths, as sequences of segments
PATH_HEALTH == <<"health">>
PATH_BARE_LOGIN == <<"auth", "login">>
PATH_API_VEHICLES == <<"api", "vehicles">>
Paths == {PATH_HEALTH, PATH_BARE_LOGIN, PATH_API_VEHICLES}

\* str.startswith on paths
StartsWith(path, prefix) ==
    Len(prefix) <= Len(path) /\ SubSeq(path, 1, Len(prefix)) = prefix

\* RateLimitMiddleware.excluded_paths
RateExcludedPaths == {<<"health">>, <<"docs">>, <<"redoc">>, <<"openapi.json">>}

\* AuthMiddleware.excluded_paths
AuthExcludedPaths == {<<"docs">>, <<"redoc">>, <<"openapi.json">>, <<"health">>,
                      <<"auth", "login">>, <<"auth", "register">>, <<"auth", "health">>}

RateExempt(path) == \E x \in RateExcludedPaths : StartsWith(path, x)
AuthExcluded(path) == \E x \in AuthExcludedPaths : StartsWith(path, x)

\* Authorization headers as AuthMiddleware.dispatch meets them: none, or a scheme
\* and a token together with what verify_token(token) does with it, the payload's
\* "sub" where the token verifies and NULL where the call raises
NoHeader == [scheme |-> NULL, sub |-> NULL]
Headers == {NoHeader} \cup [scheme : {"Bearer"}, sub : UserIds \cup {NULL}]

ValidToken(header) == header.scheme = "Bearer" /\ header.sub # NULL

\* AuthMiddleware.dispatch: the user_id it leaves on request.state (NULL: none)
AuthUserId(path, header) ==
    IF AuthExcluded(path) THEN NULL
    ELSE IF header.scheme = NULL THEN NULL
    ELSE IF header.scheme # "Bearer" THEN NULL
    ELSE header.sub

\* the order of the add_middleware calls
Registered == <<"ValidationMiddleware", "RateLimitMiddleware", "AuthMiddleware",
                "TrustedHostMiddleware", "CORSMiddleware", "add_process_time_header">>

\* the middleware stack built in registration order
ExecutionOrderAsRegistered == Registered

\* the order in which a request passes the middlewares: the last added runs first
ExecutionOrder == [i \in 1..Len(Registered) |-> Registered[Len(Registered) + 1 - i]]

RunsBefore(a, b) ==
    \E i, j \in 1..Len(ExecutionOrder) :
        i < j /\ ExecutionOrder[i] = a /\ ExecutionOrder[j] = b

\* getattr(request.state, 'user_id', None) as the rate limiter sees it
StateUserId(path, header) ==
    IF RunsBefore("AuthMiddleware", "RateLimitMiddleware")
    THEN AuthUserId(path, header) ELSE NULL

\* _clean_old_requests dropping the entries that are exactly window_size old as well
RECURSIVE clean_old_requests_eager(_, _)
clean_old_requests_eager(request_queue, current_time) ==
    IF request_queue # <<>> /\ current_time - Head(request_queue) >= window_size
    THEN clean_old_requests_eager(Tail(request_queue), current_time)
    ELSE request_queue

\* RateLimitMiddleware._clean_old_requests: the queue after the popleft loop
RECURSIVE clean_old_requests(_, _)
clean_old_requests(request_queue, current_time) ==
    IF request_queue # <<>> /\ current_time - Head(request_queue) > window_size
    THEN clean_old_requests(Tail(request_queue), current_time)
    ELSE request_queue

\* _is_rate_limited judging the queue without purging it first
is_rate_limited_unpurged(request_queue, current_time) ==
    IF Len(request_queue) >= RequestsPerMinute
    THEN [limited |-> TRUE, queue |-> request_queue]
    ELSE [limited |-> FALSE, queue |-> Append(request_queue, current_time)]

\* RateLimitMiddleware._is_rate_limited: the verdict and the queue it leaves
is_rate_limited(request_queue, current_time) ==
    LET q == clean_old_requests(request_queue, current_time)
    IN  IF Len(q) >= RequestsPerMinute
        THEN [limited |-> TRUE, queue |-> q]
        ELSE [limited |-> FALSE, queue |-> Append(q, current_time)]

\* history: how many logged requests of the ip (field "ip") or the user (field
\* "user") were passed to a handler within the window that ends now
RECURSIVE CountLog(_, _, _)
CountLog(log, ip_or_user, field) ==
    IF log = <<>> THEN 0
    ELSE (IF Head(log)[field] = ip_or_user /\ Head(log).admitted
             /\ now - Head(log).t <= window_size THEN 1 ELSE 0)
         + CountLog(Tail(log), ip_or_user, field)

\* history: seconds since the last logged request of the ip (admitted only, or
\* any that passed the per-IP check); -1 when there is none
Since(ip, admittedOnly) ==
    LET idx == {i \in 1..Len(rl_log) :
                   rl_log[i].ip = ip /\ (admittedOnly => rl_log[i].admitted)}
    IN  IF idx = {} THEN 0 - 1
        ELSE now - rl_log[CHOOSE i \in idx : \A j \in idx : j <= i].t

NoOutcome == [ip |-> NULL, user |-> NULL, sub |-> NULL, path |-> <<>>,
              status |-> 0, retry_after |-> NULL, handled |-> FALSE, by |-> "none",
              prior_ip |-> 0, prior_user |-> 0, since_admitted |-> 0 - 1,
              since_passed |-> 0 - 1, prev_by |-> "none"]

\* one request through AuthMiddleware and RateLimitMiddleware.dispatch
HttpRequest(ip, header, path) ==
    /\ LET user_id == StateUserId(path, header)
           ipCheck == is_rate_limited(ip_requests[ip], now)
           userCheck == is_rate_limited(user_requests[user_id], now)
           seen == [ip |-> ip, user |-> user_id, sub |-> IF ValidToken(header) THEN header.sub ELSE NULL,
                    path |-> path, status |-> 200, retry_after |-> NULL, handled |-> TRUE,
                    by |-> "none",
                    prior_ip |-> CountLog(rl_log, ip, "ip"),
                    prior_user |-> IF ValidToken(header)
                                   THEN CountLog(rl_log, header.sub, "user")
                                   ELSE 0,
                    since_admitted |-> Since(ip, TRUE),
                    since_passed |-> Since(ip, FALSE),
                    prev_by |-> IF rl_last.ip = ip THEN rl_last.by ELSE "none"]
           rejected(by) == [seen EXCEPT !.status = 429, !.retry_after = "60",
                                        !.handled = FALSE, !.by = by]
       IN  IF RateExempt(path) THEN
               /\ rl_last' = seen
               /\ UNCHANGED <<ip_requests, user_requests, rl_log>>
           ELSE
               /\ Len(rl_log) < MaxRequests \/ ipCheck.limited
               /\ ip_requests' = [ip_requests EXCEPT ![ip] = ipCheck.queue]
               /\ IF ipCheck.limited THEN
                      /\ rl_last' = rejected("ip")
                      /\ UNCHANGED <<user_requests, rl_log>>
                  ELSE IF user_id # NULL THEN
                      /\ user_requests' = [user_requests EXCEPT ![user_id] = userCheck.queue]
                      /\ rl_last' = IF userCheck.limited THEN rejected("user") ELSE seen
                      /\ rl_log' = Append(rl_log, [ip |-> ip, user |-> user_id, t |-> now,
                                                   admitted |-> ~userCheck.limited])
                  ELSE
                      /\ rl_last' = seen
                      /\ rl_log' = Append(rl_log, [ip |-> ip, user |-> NULL, t |-> now,
                                                   admitted |-> TRUE])
                      /\ UNCHANGED user_requests
    /\ UNCHANGED <<now, vehicleVars, dbVars, routeVars>>

\* time.time() moves on
Tick(t) ==
    /\ t > now
    /\ now' = t
    /\ UNCHANGED <<ip_requests, user_requests, rl_log, rl_last, vehicleVars, dbVars, routeVars>>

InitRateState ==
    /\ now = 0
    /\ ip_requests = [ip \in ClientIps |-> <<>>]
    /\ user_requests = [u \in UserIds \cup {NULL} |-> <<>>]
    /\ rl_log = <<>>
    /\ rl_last = NoOutcome

-----------------------------------------------------------------------------
(* The middleware stack around a handler *)

\* how many requests go through the stack
MaxHttpRequests == 3

\* Authorization header values as authorization.split() parts them; <<>> is a
\* header that is absent or empty
Authorizations ==
    { <<>>, <<"Bearer">>, <<"Basic", "good_u1">>, <<"Bearer", "good_u1">>,
      <<"bearer", "good_u1">>, <<"Bearer", "expired">>, <<"Bearer", "good_u1", "x">> }

\* verify_token: the payload of a token that verifies; a failure raises
verify_token(token) ==
    IF token = "good_u1" THEN [ok |-> TRUE, sub |-> "u1"] ELSE [ok |-> FALSE, sub |-> NULL]

\* scheme.lower()
SchemeLower(scheme) ==
    IF scheme = "Bearer" THEN "bearer" ELSE IF scheme = "Basic" THEN "basic" ELSE scheme

\* what AuthMiddleware.dispatch decides before the inner chain runs: whether it
\* calls call_next, whether that call sits in its try block, the user_id it
\* leaves on request.state, what it logged, and the status it answers with
\* when it does not call call_next
AuthContext(call_next, caught, user_id, logged, status) ==
    [call_next |-> call_next, caught |-> caught, user_id |-> user_id,
     logged |-> logged, status |-> status]

\* a dispatch that answers 401 itself when the header is unusable
auth_dispatch_rejecting(path, authorization) ==
    IF AuthExcluded(path) THEN AuthContext(TRUE, FALSE, NULL, "none", 0)
    ELSE IF authorization = <<>> THEN AuthContext(TRUE, TRUE, NULL, "none", 0)
    ELSE IF Len(authorization) # 2
        THEN AuthContext(FALSE, TRUE, NULL, "Invalid authorization header format", 401)
    ELSE IF SchemeLower(authorization[1]) # "bearer"
        THEN AuthContext(FALSE, TRUE, NULL, "Invalid authorization scheme", 401)
    ELSE LET payload == verify_token(authorization[2])
         IN  IF ~payload.ok
                 THEN AuthContext(FALSE, TRUE, NULL, "Token verification failed", 401)
             ELSE AuthContext(TRUE, TRUE, payload.sub, "Authenticated request", 0)

auth_dispatch(path, authorization) ==
    IF AuthExcluded(path) THEN AuthContext(TRUE, FALSE, NULL, "none", 0)
    ELSE IF authorization = <<>> THEN AuthContext(TRUE, TRUE, NULL, "none", 0)
    ELSE IF Len(authorization) # 2
        THEN AuthContext(TRUE, TRUE, NULL, "Invalid authorization header format", 0)
    ELSE IF SchemeLower(authorization[1]) # "bearer"
        THEN AuthContext(TRUE, TRUE, NULL, "Invalid authorization scheme", 0)
    ELSE LET payload == verify_token(authorization[2])
         IN  IF ~payload.ok
                 THEN AuthContext(TRUE, TRUE, NULL, "Token verification failed", 0)
             ELSE AuthContext(TRUE, TRUE, payload.sub, "Authenticated request", 0)

\* what a layer hands to the layer around it: a response, or a raised exception
HttpResponse(status, headers) == [raised |-> "none", status |-> status, headers |-> headers]
Raises(exception, status) == [raised |-> exception, status |-> status, headers |-> {}]

\* how a route handler ends
HandlerOutcomes == {"ok", "HTTPException", "ValidationError", "Exception"}

\* the router inside Starlette's ExceptionMiddleware: an HTTPException becomes
\* its response there, any other exception goes on up
endpoint(outcome) ==
    IF outcome = "ok" THEN HttpResponse(200, {})
    ELSE IF outcome = "HTTPException" THEN HttpResponse(404, {})
    ELSE Raises(outcome, 0)

\* ValidationMiddleware.dispatch letting unexpected errors through
validation_dispatch_uncaught(inner) ==
    IF inner.raised = "ValidationError" THEN HttpResponse(422, {})
    ELSE IF inner.raised = "HTTPException" THEN HttpResponse(inner.status, {})
    ELSE inner

\* ValidationMiddleware.dispatch
validation_dispatch(inner) ==
    IF inner.raised = "ValidationError" THEN HttpResponse(422, {})
    ELSE IF inner.raised = "HTTPException" THEN HttpResponse(inner.status, {})
    ELSE IF inner.raised = "Exception" THEN HttpResponse(500, {})
    ELSE inner

\* RateLimitMiddleware.dispatch, given the verdicts of _is_rate_limited
rate_limit_dispatch(path, ip_limited, user_id, user_limited, inner) ==
    IF RateExempt(path) THEN inner
    ELSE IF ip_limited THEN HttpResponse(429, {"Retry-After"})
    ELSE IF user_id # NULL /\ user_limited THEN HttpResponse(429, {"Retry-After"})
    ELSE IF inner.raised # "none" THEN inner
    ELSE [inner EXCEPT !.headers = @ \cup {"X-RateLimit-Limit", "X-RateLimit-Remaining",
                                           "X-RateLimit-Reset"}]

\* AuthMiddleware.dispatch from its call of call_next on
auth_call_next(context, inner) ==
    IF ~context.call_next THEN HttpResponse(context.status, {})
    ELSE IF ~context.caught \/ inner.raised = "none" THEN inner
    ELSE IF inner.raised = "HTTPException" THEN HttpResponse(inner.status, {})
    ELSE HttpResponse(500, {})

add_process_time_header(inner) ==
    IF inner.raised # "none" THEN inner
    ELSE [inner EXCEPT !.headers = @ \cup {"X-Process-Time"}]

\* Starlette's ServerErrorMiddleware around the whole stack, answering an
\* exception that got this far with the handler registered for Exception
global_exception_handler(inner) ==
    IF inner.raised # "none" THEN HttpResponse(500, {}) ELSE inner

NoHttp == [n |-> 0, path |-> <<>>, authorization |-> <<>>, outcome |-> "none",
           call_next |-> FALSE, user_id |-> NULL, handled |-> FALSE,
           response |-> HttpResponse(0, {})]

\* one request through the whole stack, outermost first: ServerErrorMiddleware,
\* add_process_time_header, CORSMiddleware, TrustedHostMiddleware (every host
\* allowed), AuthMiddleware, RateLimitMiddleware, ValidationMiddleware, handler
ServeRequest(ip, authorization, path, outcome) ==
    /\ http.n < MaxHttpRequests
    /\ LET context == auth_dispatch(path, authorization)
           user_id == context.user_id
           counted == context.call_next /\ ~RateExempt(path)
           ipCheck == is_rate_limited(ip_requests[ip], now)
           userCheck == is_rate_limited(user_requests[user_id], now)
           handled == /\ context.call_next
                      /\ RateExempt(path) \/ (~ipCheck.limited
                                               /\ (user_id = NULL \/ ~userCheck.limited))
           inner == rate_limit_dispatch(path, ipCheck.limited, user_id, userCheck.limited,
                                        validation_dispatch(endpoint(outcome)))
           response == global_exception_handler(
                           add_process_time_header(auth_call_next(context, inner)))
       IN  /\ ip_requests' = IF counted
                                 THEN [ip_requests EXCEPT ![ip] = ipCheck.queue]
                             ELSE ip_requests
           /\ user_requests' = IF counted /\ ~ipCheck.limited /\ user_id # NULL
                                   THEN [user_requests EXCEPT ![user_id] = userCheck.queue]
                               ELSE user_requests
           /\ http' = [n |-> http.n + 1, path |-> path, authorization |-> authorization,
                       outcome |-> IF handled THEN outcome ELSE "none",
                       call_next |-> context.call_next, user_id |-> user_id,
                       handled |-> handled, response |-> response]
    /\ UNCHANGED <<now, rl_log, rl_last, vehicleVars, dbVars, calc, opt, cmp, toll,
                   score, authVars, stats, validation, answer, tasks>>

-----------------------------------------------------------------------------
(* The request-scoped database session of get_db *)

\* how many requests obtain a session
MaxDbRequests == 3
DbRequests == 1..MaxDbRequests

\* a request's session: where its get_db generator stands, how the handler ended
\* and the calls made on the session so far
NoSession == [pc |-> "start", outcome |-> "none", calls |-> <<>>]

\* db = SessionLocal(); try: yield db
get_db_yield(s) == [s EXCEPT !.pc = "yielded"]

\* the except clause losing its rollback
get_db_except_norollback(s) == [s EXCEPT !.pc = "finally"]

\* except Exception: logger.error(...); db.rollback(); raise
get_db_except(s) == [s EXCEPT !.calls = Append(@, "rollback"), !.pc = "finally"]

\* finally: db.close()
get_db_finally(s) == [s EXCEPT !.calls = Append(@, "close"), !.pc = "done"]

\* a request resolves its get_db dependency and the handler receives the session
GetDb(r) ==
    /\ db_sessions[r].pc = "start"
    /\ db_sessions' = [db_sessions EXCEPT ![r] = get_db_yield(@)]
    /\ UNCHANGED <<vehicleVars, rateVars, routeVars>>

\* the handler is through and the generator is resumed: control leaves the try
\* block for the finally clause
HandlerReturns(r) ==
    /\ db_sessions[r].pc = "yielded"
    /\ db_sessions' = [db_sessions EXCEPT ![r] = [@ EXCEPT !.pc = "finally",
                                                           !.outcome = "returned"]]
    /\ UNCHANGED <<vehicleVars, rateVars, routeVars>>

\* an Exception raised while the request was handled is thrown into the
\* generator at the yield: the except clause takes it
HandlerRaises(r) ==
    /\ db_sessions[r].pc = "yielded"
    /\ db_sessions' = [db_sessions EXCEPT ![r] = [@ EXCEPT !.pc = "except",
                                                           !.outcome = "raised"]]
    /\ UNCHANGED <<vehicleVars, rateVars, routeVars>>

\* the request is cancelled: what is thrown into the generator is no Exception
\* and passes the except clause by
HandlerCancelled(r) ==
    /\ db_sessions[r].pc = "yielded"
    /\ db_sessions' = [db_sessions EXCEPT ![r] = [@ EXCEPT !.pc = "finally",
                                                           !.outcome = "cancelled"]]
    /\ UNCHANGED <<vehicleVars, rateVars, routeVars>>

ExceptClause(r) ==
    /\ db_sessions[r].pc = "except"
    /\ db_sessions' = [db_sessions EXCEPT ![r] = get_db_except(@)]
    /\ UNCHANGED <<vehicleVars, rateVars, routeVars>>

FinallyClause(r) ==
    /\ db_sessions[r].pc = "finally"
    /\ db_sessions' = [db_sessions EXCEPT ![r] = get_db_finally(@)]
    /\ UNCHANGED <<vehicleVars, rateVars, routeVars>>

-----------------------------------------------------------------------------
(* Route calculation and its history save *)

MaxCalcs == 2

\* what the geocoder and OSRM let a calculation do: routes found, a ValueError
\* (address not geocoded, no route found), any other exception (OSRM down)
CalcOutcomes == {"ok", "ValueError", "Exception"}

NoUser == [id |-> NULL, role |-> NULL, company_id |-> NULL, is_active |-> FALSE]
NoRow == [id |-> NULL, user_id |-> NULL, vehicle_id |-> NULL, company_id |-> NULL]
NewRouteIds == {"r2", "r3", "r4", "r5"}

NoCalc == [status |-> 0, user |-> NoUser, vehicle_id |-> NULL, task |-> "none",
           row |-> NoRow, log |-> "none", raised |-> FALSE, n |-> 0]

\* the attributes of the mapped class CalculatedRoute, which are the keyword
\* arguments its constructor accepts
CalculatedRouteAttributes ==
    { "id", "origin_address", "destination_address", "origin_coords",
      "destination_coords", "selected_route_geometry", "total_distance",
      "total_duration", "fuel_cost", "toll_cost", "total_cost", "savings_amount",
      "alternative_route_cost", "route_type", "weather_conditions",
      "traffic_conditions", "notes", "created_at", "user_id", "vehicle_id",
      "company_id", "user", "vehicle", "company", "origin_coordinates",
      "destination_coordinates", "route_coordinates", "savings_percentage",
      "cost_per_km", "fuel_cost_percentage", "toll_cost_percentage",
      "get_company_routes", "get_user_routes", "get_vehicle_routes" }

\* the keyword arguments save_calculated_route constructs the row with
SaveKeywords ==
    { "user_id", "vehicle_id", "origin_latitude", "origin_longitude",
      "origin_address", "destination_latitude", "destination_longitude",
      "destination_address", "distance_km", "duration_minutes", "fuel_cost",
      "toll_cost", "total_cost", "estimated_savings", "route_geometry",
      "calculation_time_ms" }

\* POST /routes/calculate: the status answered and whether the history save
\* was added to the background tasks
calculate_route(current_user, vehicle_id, outcome) ==
    IF get_current_active_user(current_user) # 0
        THEN [status |-> get_current_active_user(current_user), scheduled |-> FALSE]
    ELSE IF outcome = "ValueError" \/ QueryById(vehicle_id).id = NULL
        THEN [status |-> 400, scheduled |-> FALSE]
    ELSE IF outcome = "Exception"
        THEN [status |-> 500, scheduled |-> FALSE]
    ELSE [status |-> 200, scheduled |-> TRUE]

\* RouteOptimizationService.save_calculated_route: the references of the row
\* it constructs, whether it raised, and the table it leaves.  The constructor
\* raises TypeError for a keyword that is no attribute of the class; the
\* INSERT raises IntegrityError for a NULL company_id or a vehicle_id without
\* its vehicles row
save_calculated_route(user_id, vehicle_id, rows) ==
    LET row == [id |-> CHOOSE i \in NewRouteIds : \A r \in rows : r.id # i,
                user_id |-> user_id, vehicle_id |-> vehicle_id, company_id |-> NULL]
    IN  IF \/ ~(SaveKeywords \subseteq CalculatedRouteAttributes)
           \/ row.company_id = NULL
           \/ \A v \in vehicles : v.id # row.vehicle_id
            THEN [raised |-> TRUE, row |-> row, calculated_routes |-> rows]
        ELSE [raised |-> FALSE, row |-> row, calculated_routes |-> rows \cup {row}]

\* the background task without its try/except
_save_route_calculation_unguarded(user_id, vehicle_id, rows) ==
    LET s == save_calculated_route(user_id, vehicle_id, rows)
    IN  [log |-> IF s.raised THEN "none" ELSE "saved", raised |-> s.raised,
         row |-> s.row, calculated_routes |-> s.calculated_routes]

\* the background task: what it logs, whether an exception leaves it
_save_route_calculation(user_id, vehicle_id, rows) ==
    LET s == save_calculated_route(user_id, vehicle_id, rows)
    IN  [log |-> IF s.raised THEN "error" ELSE "saved", raised |-> FALSE,
         row |-> s.row, calculated_routes |-> s.calculated_routes]

\* a client posts a route calculation and receives the response
CalculateRoute(u, vehicle_id, outcome) ==
    /\ calc.task # "scheduled"
    /\ calc.n < MaxCalcs
    /\ LET r == calculate_route(u, vehicle_id, outcome)
       IN  calc' = [status |-> r.status, user |-> u, vehicle_id |-> vehicle_id,
                    task |-> IF r.scheduled THEN "scheduled" ELSE "none",
                    row |-> NoRow, log |-> "none", raised |-> FALSE, n |-> calc.n + 1]
    /\ UNCHANGED <<vehicleVars, rateVars, dbVars, pureVars>>

\* the background task runs, after the response was sent
SaveRouteCalculation ==
    /\ calc.task = "scheduled"
    /\ LET r == _save_route_calculation(calc.user.id, calc.vehicle_id, calculated_routes)
       IN  /\ calc' = [calc EXCEPT !.task = "done", !.row = r.row, !.log = r.log,
                                   !.raised = r.raised]
           /\ calculated_routes' = r.calculated_routes
    /\ UNCHANGED <<vehicles, pc, sess, last, ops, rateVars, dbVars, pureVars>>

-----------------------------------------------------------------------------
(* The history save on the session of its request *)

NoTasks == [r \in DbRequests |-> "none"]

\* the calls save_calculated_route makes on the session it was handed: the
\* constructor raising takes it to except, which rolls back
SessionCallsOfSave ==
    IF ~(SaveKeywords \subseteq CalculatedRouteAttributes) THEN <<"task_rollback">>
    ELSE <<"task_add", "task_commit", "task_rollback">>
TaskCalls == {"task_add", "task_commit", "task_rollback"}

\* calculate_route is through on the session of slot r: answered 200 with the
\* history save added to the background tasks, or raising HTTPException
CalculateRouteEnds(r, u, vehicle_id, outcome) ==
    /\ db_sessions[r].pc = "yielded"
    /\ get_current_active_user(u) = 0
    /\ LET c == calculate_route(u, vehicle_id, outcome)
       IN  /\ db_sessions' =
                  [db_sessions EXCEPT ![r] =
                      [@ EXCEPT !.pc = IF c.status = 200 THEN "finally" ELSE "except",
                                !.outcome = IF c.status = 200 THEN "returned" ELSE "raised"]]
           /\ tasks' = [tasks EXCEPT ![r] = IF c.scheduled THEN "scheduled" ELSE "none"]
    /\ UNCHANGED <<vehicleVars, rateVars, calc, opt, cmp, toll, score, authVars, http, stats,
                   validation, answer>>

\* the background task of slot r runs, after the response was sent, on the
\* session its request was given.  Whether the generator of get_db is resumed
\* before or after the background tasks is the framework's choice (FastAPI
\* resumes it before the response is sent from 0.106 on, after the
\* background tasks before that), and no version is pinned
RunSaveTask(r) ==
    /\ tasks[r] = "scheduled"
    /\ db_sessions' = [db_sessions EXCEPT ![r] = [@ EXCEPT !.calls = @ \o SessionCallsOfSave]]
    /\ tasks' = [tasks EXCEPT ![r] = "done"]
    /\ UNCHANGED <<vehicleVars, rateVars, calc, opt, cmp, toll, score, authVars, http, stats,
                   validation, answer>>

-----------------------------------------------------------------------------
(* optimize_route: fuel price, route costs, recommendation, savings *)

MaxRoutes == 3
MaxFuelRows == 2

HoursPerDay == 24
\* the age, in days, up to which a fuel price is current
MaxPriceAgeDays == 30

FuelTypes == {"diesel_500", "diesel_premium", "gasoline"}

\* fuel_prices rows: age is the time since updated_at, in hours, NONE for a
\* row never updated (updated_at is only set by onupdate)
FuelPriceRows ==
    [fuel_type : {"diesel_500", "gasoline"}, is_active : BOOLEAN,
     age : {NONE, HoursPerDay, MaxPriceAgeDays * HoursPerDay + 23,
            (MaxPriceAgeDays + 1) * HoursPerDay},
     price_per_liter : {155, 156}]
NoFuelPrice == [fuel_type |-> NULL, is_active |-> FALSE, age |-> NONE,
                price_per_liter |-> NONE]

\* the database behind settings.database_url: PostgreSQL sorts NULL first in
\* descending order and returns timezone-aware datetimes, SQLite sorts NULL
\* last and returns naive ones
Backends == {"postgresql", "sqlite"}

\* the rows .order_by(updated_at.desc()).first() may return
FirstFuelPrice(rows, fuel_type, backend) ==
    LET found == {r \in rows : r.fuel_type = fuel_type /\ r.is_active}
        nulls == {r \in found : r.age = NONE}
        dated == {r \in found : r.age # NONE}
        newest == {r \in dated : \A q \in dated : r.age <= q.age}
    IN  IF found = {} THEN {NoFuelPrice}
        ELSE IF backend = "postgresql" THEN (IF nulls # {} THEN nulls ELSE newest)
        ELSE IF dated # {} THEN newest ELSE nulls

\* timedelta.days of a non-negative difference: whole days, remainder dropped
days(hours) == hours \div HoursPerDay

\* _get_current_fuel_price: NONE is None.  first is the row the query
\* returned; datetime.now() - updated_at raises TypeError for a NULL and for
\* a timezone-aware updated_at, and every exception is answered None
_get_current_fuel_price(first, backend, db_error) ==
    IF db_error THEN NONE
    ELSE IF first = NoFuelPrice THEN NONE
    ELSE IF first.age = NONE \/ backend = "postgresql" THEN NONE
    ELSE IF days(first.age) <= MaxPriceAgeDays THEN first.price_per_liter
    ELSE NONE

_get_default_fuel_price(fuel_type) ==
    IF fuel_type = "diesel_500" THEN 150
    ELSE IF fuel_type = "diesel_premium" THEN 170
    ELSE IF fuel_type = "gasoline" THEN 160
    ELSE 160

\* what OSRM returns, reduced to what the costs are computed from: the fuel a
\* route needs, the total of the tolls detected on it, its duration
Liters == {10, 15}
TollCosts == {0, 750}
OsrmRoutes == [liters : Liters, toll_cost : TollCosts]
\* the lists of at most n routes
RouteLists(n) == UNION {[1..k -> OsrmRoutes] : k \in 0..n}

\* _calculate_route_costs
_calculate_route_costs(osrm_route, fuel_price, avoid_tolls) ==
    LET total_fuel_cost == osrm_route.liters * fuel_price
        total_toll_cost == IF avoid_tolls THEN 0 ELSE osrm_route.toll_cost
    IN  [fuel_cost |-> total_fuel_cost, total_toll_cost |-> total_toll_cost,
         total_cost |-> total_fuel_cost + total_toll_cost]

\* the recommended route taken to be the first, fastest one
recommended_route_fastest(optimized_routes) == 1

\* min(optimized_routes, key=total_cost): the index of the first route of
\* minimum total cost
recommended_route(optimized_routes) ==
    CHOOSE i \in 1..Len(optimized_routes) :
        /\ \A j \in 1..Len(optimized_routes) :
               optimized_routes[i].total_cost <= optimized_routes[j].total_cost
        /\ \A j \in 1..(i - 1) :
               optimized_routes[j].total_cost > optimized_routes[i].total_cost

\* the savings taken as recommended minus fastest
total_savings_reversed(optimized_routes, recommended) ==
    IF recommended # 1
        THEN optimized_routes[recommended].total_cost - optimized_routes[1].total_cost
    ELSE 0

\* total_savings: zero unless the recommended route is another one than the
\* fastest, then fastest minus recommended
total_savings(optimized_routes, recommended) ==
    IF recommended # 1
        THEN optimized_routes[1].total_cost - optimized_routes[recommended].total_cost
    ELSE 0

NoResponseOpt == [status |-> "none", fuel_price |-> NONE, warnings |-> {},
                  routes |-> <<>>, recommended |-> 0, total_savings |-> 0]
Raised(exception) == [NoResponseOpt EXCEPT !.status = exception]

\* RouteOptimizationService.optimize_route on request and environment in
optimize_route(in) ==
    LET current == _get_current_fuel_price(in.first, in.backend, in.db_error)
        fuel_price == IF current = NONE \/ current = 0
                          THEN _get_default_fuel_price(in.fuel_type) ELSE current
        warnings == IF current = NONE \/ current = 0 THEN {"default_fuel_price"} ELSE {}
        costs == [i \in 1..Len(in.osrm_routes) |->
                      _calculate_route_costs(in.osrm_routes[i], fuel_price, in.avoid_tolls)]
        rec == recommended_route(costs)
        optimized_routes ==
            [i \in 1..Len(costs) |->
                [total_cost |-> costs[i].total_cost,
                 total_toll_cost |-> costs[i].total_toll_cost,
                 route_type |-> IF i = rec THEN "cheapest"
                                ELSE IF i = 1 THEN "fastest" ELSE "alternative"]]
    IN  IF ~in.vehicle_found THEN Raised("ValueError")
        ELSE IF ~in.osrm_up THEN Raised("RuntimeError")
        ELSE IF in.osrm_routes = <<>> THEN Raised("ValueError")
        ELSE [status |-> "ok", fuel_price |-> fuel_price, warnings |-> warnings,
              routes |-> optimized_routes, recommended |-> rec,
              total_savings |-> total_savings(costs, rec)]

\* a request of optimize_route with the fuel_prices table and the services it meets
OptRequest(rows, fuel_type, backend, db_error, first, found, up, routes, avoid) ==
    [rows |-> rows, fuel_type |-> fuel_type, backend |-> backend, db_error |-> db_error,
     first |-> first, vehicle_found |-> found, osrm_up |-> up, osrm_routes |-> routes,
     avoid_tolls |-> avoid]

FreshRow == [fuel_type |-> "diesel_500", is_active |-> TRUE, age |-> HoursPerDay,
             price_per_liter |-> 155]

\* requests that vary the routes, at most n, under one current fuel price
RouteRequests(n) ==
    { OptRequest({FreshRow}, "diesel_500", "sqlite", FALSE, FreshRow, found, up, routes, avoid) :
        found \in BOOLEAN, up \in BOOLEAN, routes \in RouteLists(n), avoid \in BOOLEAN }

\* the fuel_prices tables of at most n rows
RECURSIVE FuelTables(_)
FuelTables(n) ==
    IF n = 0 THEN {{}}
    ELSE LET smaller == FuelTables(n - 1)
         IN  smaller \cup {t \cup {r} : t \in smaller, r \in FuelPriceRows}

\* requests that vary the fuel_prices table, of at most n rows, for one route
FuelRequests(n) ==
    UNION { { OptRequest(rows, ft, b, e, first, TRUE, TRUE,
                         <<[liters |-> 10, toll_cost |-> 0]>>, FALSE) :
                  first \in FirstFuelPrice(rows, ft, b) } :
            rows \in FuelTables(n), ft \in {"diesel_500", "diesel_premium"},
            b \in Backends, e \in BOOLEAN }

OptimizeRoute ==
    /\ opt.out = NoResponseOpt
    /\ opt' = [opt EXCEPT !.out = optimize_route(opt.in)]
    /\ UNCHANGED <<vehicleVars, rateVars, dbVars, calc, cmp, toll, otherVars>>

-----------------------------------------------------------------------------
(* _compare_two_routes *)

\* the cost difference, in ARS, under which two routes count as similar
SimilarCost == 10

\* routes as _compare_two_routes reads them: total cost in ARS, duration in seconds
ComparedRoutes == [total_cost : {400, 405, 500}, duration : {3600, 3840, 6000}]

Abs(x) == IF x < 0 THEN 0 - x ELSE x

\* the recommendation: the route its text names and what it says of it
Recommendation(route_id, text) == [route |-> route_id, text |-> text]

NoComparison == [cost_difference |-> 0, time_difference |-> 0,
                 recommendation |-> Recommendation(NULL, NULL)]

_compare_two_routes(route_a, route_b, route_a_id, route_b_id) ==
    LET cost_diff == route_b.total_cost - route_a.total_cost
        time_diff == (route_b.duration - route_a.duration) \div 60
        recommendation ==
            IF Abs(cost_diff) < SimilarCost THEN
                IF time_diff < 0 - 5
                    THEN Recommendation(route_b_id, "is faster with similar cost")
                ELSE IF time_diff > 5
                    THEN Recommendation(route_a_id, "is faster with similar cost")
                ELSE Recommendation("none", "Routes are very similar")
            ELSE IF cost_diff < 0 THEN
                IF time_diff > 30
                    THEN Recommendation(route_a_id, "is cheaper but much slower")
                ELSE Recommendation(route_a_id, "is more cost-effective")
            ELSE
                IF time_diff < 0 - 30
                    THEN Recommendation(route_b_id, "is cheaper and faster")
                ELSE Recommendation(route_b_id, "is more cost-effective")
    IN  [cost_difference |-> cost_diff, time_difference |-> time_diff,
         recommendation |-> recommendation]

CompareTwoRoutes ==
    /\ cmp.out = NoComparison
    /\ cmp' = [cmp EXCEPT !.out = _compare_two_routes(cmp.route_a, cmp.route_b,
                                                      "route_0", "route_1")]
    /\ UNCHANGED <<vehicleVars, rateVars, dbVars, calc, opt, toll, otherVars>>

-----------------------------------------------------------------------------
(* Toll tariffs by vehicle category *)

\* the weight, in kg, above which a vehicle is a truck
TruckWeight == 3500

\* vehicle models, as their characters
MODEL_ACTROS == <<"A", "c", "t", "r", "o", "s">>
MODEL_MOTO == <<"M", "o", "t", "o">>
MODEL_SCOOTER == <<"S", "C", "O", "O", "T", "E", "R">>
VehicleModels == {MODEL_ACTROS, MODEL_MOTO, MODEL_SCOOTER}

\* str.lower, on the letters of the models
LowerChar(c) ==
    IF c = "A" THEN "a" ELSE IF c = "M" THEN "m" ELSE IF c = "S" THEN "s"
    ELSE IF c = "C" THEN "c" ELSE IF c = "O" THEN "o" ELSE IF c = "T" THEN "t"
    ELSE IF c = "E" THEN "e" ELSE IF c = "R" THEN "r" ELSE c
Lower(str) == [i \in 1..Len(str) |-> LowerChar(str[i])]

\* sub in str
Contains(str, sub) ==
    \E i \in 0..(Len(str) - Len(sub)) : \A j \in 1..Len(sub) : str[i + j] = sub[j]

TollVehicles == [max_weight : {NONE, TruckWeight, TruckWeight + 1}, model : VehicleModels]

\* toll records as _get_toll_cost_for_vehicle reads them; NONE is an unset tariff
TollRecords == [cost_car : {NONE, 0, 50}, cost_truck : {NONE, 100},
                cost_motorcycle : {NONE, 25}]

_get_vehicle_category(vehicle) ==
    IF vehicle.max_weight # NONE /\ vehicle.max_weight # 0 /\ vehicle.max_weight > TruckWeight
        THEN "truck"
    ELSE IF \/ Contains(Lower(vehicle.model), <<"m", "o", "t", "o">>)
            \/ Contains(Lower(vehicle.model), <<"s", "c", "o", "o", "t", "e", "r">>)
        THEN "motorcycle"
    ELSE "car"

\* x or Decimal('0')
OrZero(x) == IF x = NONE \/ x = 0 THEN 0 ELSE x

_get_toll_cost_for_vehicle(toll_record, vehicle) ==
    LET vehicle_category == _get_vehicle_category(vehicle)
    IN  IF vehicle_category = "car" THEN OrZero(toll_record.cost_car)
        ELSE IF vehicle_category = "truck" THEN OrZero(toll_record.cost_truck)
        ELSE IF vehicle_category = "motorcycle" THEN OrZero(toll_record.cost_motorcycle)
        ELSE OrZero(toll_record.cost_car)

\* the loop of _detect_route_tolls over the toll records its query returned:
\* the tolls kept, each with the cost charged
_detect_route_tolls(toll_records, vehicle) ==
    { [toll |-> t, cost |-> _get_toll_cost_for_vehicle(t, vehicle),
       vehicle_type |-> _get_vehicle_category(vehicle)] :
        t \in {q \in toll_records : _get_toll_cost_for_vehicle(q, vehicle) > 0} }

\* a toll record and a vehicle whose cost is yet to be computed
TollCase(toll_record, vehicle) ==
    [toll_record |-> toll_record, vehicle |-> vehicle, done |-> FALSE,
     category |-> NULL, cost |-> NONE, tolls |-> {}]

GetTollCost ==
    /\ ~toll.done
    /\ toll' = [toll EXCEPT !.done = TRUE,
                            !.category = _get_vehicle_category(toll.vehicle),
                            !.cost = _get_toll_cost_for_vehicle(toll.toll_record, toll.vehicle),
                            !.tolls = _detect_route_tolls({toll.toll_record}, toll.vehicle)]
    /\ UNCHANGED <<vehicleVars, rateVars, dbVars, calc, opt, cmp, otherVars>>

-----------------------------------------------------------------------------
(* _calculate_weighted_score *)

\* the score 1.0: scores and weights are counted in hundredths
Unit == 100

OptimizationCriteria == {"total_cost", "fuel_cost", "time", "distance",
                         "toll_avoidance", "balanced"}

WeightSet(cost, time, distance, toll_weight) ==
    [cost |-> cost, time |-> time, distance |-> distance, toll |-> toll_weight]

\* the default weights of each criteria
weights ==
    [criteria \in OptimizationCriteria |->
        CASE criteria = "total_cost" -> WeightSet(60, 20, 10, 10)
          [] criteria = "fuel_cost" -> WeightSet(70, 20, 10, 0)
          [] criteria = "time" -> WeightSet(20, 60, 10, 10)
          [] criteria = "distance" -> WeightSet(20, 20, 60, 0)
          [] criteria = "toll_avoidance" -> WeightSet(20, 20, 10, 50)
          [] criteria = "balanced" -> WeightSet(30, 30, 20, 20)]

\* user_preferences as the function reads it: a key that is absent is falsy
UserPreferences == [prioritize_cost : BOOLEAN, prioritize_time : BOOLEAN,
                    avoid_tolls : BOOLEAN]

\* the normalized scores the function is given
NormalizedScores == {0, 50, Unit}

\* the weighted sum, in ten-thousandths
WeightedSum(cost_score, time_score, distance_score, toll_score, weight_set) ==
    cost_score * weight_set.cost + time_score * weight_set.time
        + distance_score * weight_set.distance + toll_score * weight_set.toll

\* prioritize_cost raising the cost weight without lowering the others
_calculate_weighted_score_uncompensated(cost_score, time_score, distance_score, toll_score, criteria, user_preferences) ==
    LET w0 == IF criteria \in DOMAIN weights THEN weights[criteria] ELSE weights["balanced"]
        w1 == IF user_preferences.prioritize_cost
                  THEN [w0 EXCEPT !.cost = @ + 10]
              ELSE w0
        w2 == IF user_preferences.prioritize_time
                  THEN [w1 EXCEPT !.time = @ + 10, !.cost = @ - 5, !.distance = @ - 5]
              ELSE w1
        weight_set == IF user_preferences.avoid_tolls
                          THEN [w2 EXCEPT !.toll = @ + 20, !.cost = @ - 10, !.time = @ - 10]
                      ELSE w2
    IN  WeightedSum(cost_score, time_score, distance_score, toll_score, weight_set)

_calculate_weighted_score(cost_score, time_score, distance_score, toll_score, criteria, user_preferences) ==
    LET w0 == IF criteria \in DOMAIN weights THEN weights[criteria] ELSE weights["balanced"]
        w1 == IF user_preferences.prioritize_cost
                  THEN [w0 EXCEPT !.cost = @ + 10, !.time = @ - 5, !.distance = @ - 5]
              ELSE w0
        w2 == IF user_preferences.prioritize_time
                  THEN [w1 EXCEPT !.time = @ + 10, !.cost = @ - 5, !.distance = @ - 5]
              ELSE w1
        weight_set == IF user_preferences.avoid_tolls
                          THEN [w2 EXCEPT !.toll = @ + 20, !.cost = @ - 10, !.time = @ - 10]
                      ELSE w2
    IN  WeightedSum(cost_score, time_score, distance_score, toll_score, weight_set)

ScoreCase(cost_score, time_score, distance_score, toll_score, criteria, user_preferences) ==
    [cost_score |-> cost_score, time_score |-> time_score,
     distance_score |-> distance_score, toll_score |-> toll_score,
     criteria |-> criteria, user_preferences |-> user_preferences,
     done |-> FALSE, total_score |-> 0]

CalculateWeightedScore ==
    /\ ~score.done
    /\ score' = [score EXCEPT !.done = TRUE,
                              !.total_score = _calculate_weighted_score(
                                  score.cost_score, score.time_score,
                                  score.distance_score, score.toll_score,
                                  score.criteria, score.user_preferences)]
    /\ UNCHANGED <<vehicleVars, rateVars, dbVars, calc, opt, cmp, toll, authVars, http, stats, validation, answer, tasks>>

-----------------------------------------------------------------------------
(* calculate_route: the route it answers with and the route it saves *)

MaxAnalysed == 2

\* RouteRequest.optimize_for
OptimizeFor == {"cost", "time", "distance"}

\* the routes optimize_route analysed: distance in metres, duration in seconds
AnalysedRoutes ==
    { [distance |-> d, duration |-> t, fuel_cost |-> f, total_toll_cost |-> l,
       total_cost |-> f + l] :
        d \in {10000, 20000}, t \in {3600, 5400}, f \in {100, 200}, l \in {0, 100} }
\* the lists of at least one and at most n routes, the fastest first
AnalysedLists(n) == UNION {[1..k -> AnalysedRoutes] : k \in 1..n}

\* criteria_map.get(request.optimize_for, OptimizationCriteria.TOTAL_COST)
criteria_map(optimize_for) ==
    CASE optimize_for = "cost" -> "total_cost"
      [] optimize_for = "time" -> "time"
      [] optimize_for = "distance" -> "distance"
      [] OTHER -> "total_cost"

ValuesOf(routes, field) == {routes[i][field] : i \in DOMAIN routes}
MinOf(values) == CHOOSE v \in values : \A w \in values : v <= w
MaxOf(values) == CHOOSE v \in values : \A w \in values : v >= w

\* _normalize_score, in hundredths
_normalize_score(value, min_val, max_val) ==
    IF max_val = min_val THEN 0
    ELSE ((value - min_val) * Unit) \div (max_val - min_val)

\* _score_routes: the total_score of each route
_score_routes(routes, criteria, user_preferences) ==
    LET normalized(i, field) ==
            _normalize_score(routes[i][field], MinOf(ValuesOf(routes, field)),
                             MaxOf(ValuesOf(routes, field)))
    IN  [i \in DOMAIN routes |->
            _calculate_weighted_score(normalized(i, "total_cost"),
                                      normalized(i, "duration"),
                                      normalized(i, "distance"),
                                      normalized(i, "total_toll_cost"),
                                      criteria, user_preferences)]

\* _select_recommended_route: the index of the first route of lowest score,
\* which it labels "recommended"
_select_recommended_route(route_scores) ==
    CHOOSE i \in DOMAIN route_scores :
        /\ \A j \in DOMAIN route_scores : route_scores[i] <= route_scores[j]
        /\ \A j \in 1..(i - 1) : route_scores[j] > route_scores[i]

\* the route_type of each route when the response is converted: optimize_route
\* labelled the routes, analyze_routes relabelled the one it selected
route_types(routes, cheapest, selected) ==
    [i \in DOMAIN routes |->
        IF i = selected THEN "recommended"
        ELSE IF i = cheapest THEN "cheapest"
        ELSE IF i = 1 THEN "fastest" ELSE "alternative"]

\* what a response or a row tells of a route: kilometres, minutes, costs
RouteFigures(route) ==
    [distance |-> route.distance \div 1000, duration |-> route.duration \div 60,
     fuel_cost |-> route.fuel_cost, toll_cost |-> route.total_toll_cost,
     total_cost |-> route.total_cost]

\* _convert_to_api_response: recommended_route is the first route labelled
\* "recommended", the first route if none is; savings_amount is
\* optimization_response.total_savings
_convert_to_api_response(routes, types, cheapest, savings) ==
    LET labelled == {i \in DOMAIN routes : types[i] = "recommended"}
        recommended == IF labelled = {} THEN 1
                       ELSE CHOOSE i \in labelled : \A j \in labelled : i <= j
    IN  [recommended_route |-> RouteFigures(routes[recommended]),
         savings_amount |-> savings]

\* the values save_calculated_route gives the row: those of
\* optimization_response.recommended_route and total_savings
CalculatedRouteValues(routes, cheapest, savings) ==
    [route |-> RouteFigures(routes[cheapest]), estimated_savings |-> savings]

NoAnswer == [response |-> [recommended_route |-> RouteFigures(
                               [distance |-> 0, duration |-> 0, fuel_cost |-> 0,
                                total_toll_cost |-> 0, total_cost |-> 0]),
                           savings_amount |-> 0],
             row |-> CalculatedRouteValues(
                         <<[distance |-> 0, duration |-> 0, fuel_cost |-> 0,
                            total_toll_cost |-> 0, total_cost |-> 0]>>, 1, 0),
             cheapest |-> 0, selected |-> 0]

\* calculate_route from the routes of optimize_route on: the analysis, the
\* response, and the row the background save builds
AnswerAndSave ==
    /\ ~answer.done
    /\ LET routes == answer.routes
           cheapest == recommended_route(routes)
           savings == total_savings(routes, cheapest)
           selected == _select_recommended_route(
                           _score_routes(routes, criteria_map(answer.optimize_for),
                                         [prioritize_cost |-> FALSE,
                                          prioritize_time |-> FALSE,
                                          avoid_tolls |-> FALSE]))
           types == route_types(routes, cheapest, selected)
       IN  answer' = [answer EXCEPT
                         !.done = TRUE,
                         !.out = [response |-> _convert_to_api_response(
                                                   routes, types, cheapest, savings),
                                  row |-> CalculatedRouteValues(routes, cheapest, savings),
                                  cheapest |-> cheapest, selected |-> selected]]
    /\ UNCHANGED <<vehicleVars, rateVars, dbVars, calc, opt, cmp, toll, score, authVars, http,
                   stats, validation, tasks>>

-----------------------------------------------------------------------------
(* AuthService and the endpoints of the active user *)

MaxAuthRequests == 3

\* companies.is_active: company c2 has been disabled
CompanyIsActive == [c \in Companies |-> c = "c1"]

\* the users table; last_login is None until the first login
InitUsers ==
    [id \in {u.id : u \in Users} |->
        LET u == CHOOSE x \in Users : x.id = id
        IN  [id |-> id, role |-> u.role, company_id |-> u.company_id,
             is_active |-> u.is_active, is_verified |-> FALSE, last_login |-> NONE]]

NoAccount == [id |-> NULL, role |-> NULL, company_id |-> NULL,
              is_active |-> FALSE, is_verified |-> FALSE, last_login |-> NONE]

\* login credentials: the email (the user id stands for it) and whether the
\* password matches the stored hash
LoginData == [email : DOMAIN InitUsers \cup {"nobody"}, password_ok : BOOLEAN]

AuthResponse(n, op, user_id, status) ==
    [n |-> n, op |-> op, user |-> user_id, status |-> status]

NoAuthResponse == AuthResponse(0, "none", NULL, 0)

\* login_user accepting a disabled account
login_user_without_active_check(rows, login_data, utcnow) ==
    IF login_data.email \notin DOMAIN rows
        THEN [status |-> 401, user |-> NULL, rows |-> rows, token |-> NULL]
    ELSE LET user == rows[login_data.email]
         IN  IF ~login_data.password_ok
                 THEN [status |-> 401, user |-> user.id, rows |-> rows, token |-> NULL]
             ELSE IF ~CompanyIsActive[user.company_id]
                 THEN [status |-> 400, user |-> user.id, rows |-> rows, token |-> NULL]
             ELSE [status |-> 200, user |-> user.id,
                   rows |-> [rows EXCEPT ![user.id].last_login = utcnow],
                   token |-> user.id]

login_user(rows, login_data, utcnow) ==
    IF login_data.email \notin DOMAIN rows
        THEN [status |-> 401, user |-> NULL, rows |-> rows, token |-> NULL]
    ELSE LET user == rows[login_data.email]
         IN  IF ~login_data.password_ok
                 THEN [status |-> 401, user |-> user.id, rows |-> rows, token |-> NULL]
             ELSE IF ~user.is_active
                 THEN [status |-> 400, user |-> user.id, rows |-> rows, token |-> NULL]
             ELSE IF ~CompanyIsActive[user.company_id]
                 THEN [status |-> 400, user |-> user.id, rows |-> rows, token |-> NULL]
             ELSE [status |-> 200, user |-> user.id,
                   rows |-> [rows EXCEPT ![user.id].last_login = utcnow],
                   token |-> user.id]

\* get_current_user: the bearer token is verified and its user loaded by sub;
\* 401 without a valid token or when the user no longer exists
get_current_user(rows, token) ==
    IF token = NULL \/ token \notin DOMAIN rows
        THEN [status |-> 401, user |-> NoAccount]
    ELSE [status |-> 0, user |-> rows[token]]

\* the dependency chain of an endpoint declared with
\* Depends(get_current_active_user)
ResolveActiveUser(rows, token) ==
    LET current == get_current_user(rows, token)
    IN  IF current.status # 0 THEN current
        ELSE [status |-> get_current_active_user(current.user), user |-> current.user]

\* POST /auth/login
Login(login_data) ==
    /\ auth_last.n < MaxAuthRequests
    /\ LET r == login_user(users, login_data, now)
       IN  /\ users' = r.rows
           /\ tokens' = IF r.token = NULL THEN tokens ELSE tokens \cup {r.token}
           /\ auth_last' = AuthResponse(auth_last.n + 1, "login", r.user, r.status)
    /\ UNCHANGED <<vehicleVars, rateVars, dbVars, calc, opt, cmp, toll, score, http, stats, validation, answer, tasks>>

\* POST /auth/verify-email and AuthService.verify_email, with a token that is out or without one
VerifyEmail(token) ==
    /\ auth_last.n < MaxAuthRequests
    /\ LET d == ResolveActiveUser(users, token)
       IN  IF d.status # 0
               THEN /\ auth_last' = AuthResponse(auth_last.n + 1, "verify_email", token, d.status)
                    /\ UNCHANGED users
           ELSE /\ users' = [users EXCEPT ![d.user.id].is_verified = TRUE]
                /\ auth_last' = AuthResponse(auth_last.n + 1, "verify_email", token, 200)
    /\ UNCHANGED <<tokens, vehicleVars, rateVars, dbVars, calc, opt, cmp, toll, score, http, stats, validation, answer, tasks>>

\* GET /auth/me
GetCurrentUserInfo(token) ==
    /\ auth_last.n < MaxAuthRequests
    /\ LET d == ResolveActiveUser(users, token)
       IN  auth_last' = AuthResponse(auth_last.n + 1, "get_current_user_info", token,
                                     IF d.status # 0 THEN d.status ELSE 200)
    /\ UNCHANGED <<users, tokens, vehicleVars, rateVars, dbVars, calc, opt, cmp, toll, score, http, stats, validation, answer, tasks>>

\* AuthService.deactivate_user
DeactivateUser(id) ==
    /\ users[id].is_active
    /\ users' = [users EXCEPT ![id].is_active = FALSE]
    /\ UNCHANGED <<tokens, auth_last, vehicleVars, rateVars, dbVars, calc, opt, cmp, toll, score, http, stats, validation, answer, tasks>>

\* AuthService.reactivate_user
ReactivateUser(id) ==
    /\ ~users[id].is_active
    /\ users' = [users EXCEPT ![id].is_active = TRUE]
    /\ UNCHANGED <<tokens, auth_last, vehicleVars, rateVars, dbVars, calc, opt, cmp, toll, score, http, stats, validation, answer, tasks>>

-----------------------------------------------------------------------------
(* RouteStatisticsService and the statistics endpoints *)

\* how many routes fall within the requested window
MaxWindowRoutes == 2

\* the calculated routes of the window, as the statistics read them
WindowRoutes == [fuel_cost : {100}, toll_cost : {0, 50}]
RouteWindows(n) == UNION {[1..k -> WindowRoutes] : k \in 0..n}

\* the statistics requests: operation, scope and grouping interval
StatisticsRequests ==
    [op : {"user", "company"}, scope : {"none"}, interval : {"none"}]
    \cup [op : {"trends"}, scope : {"user", "company"},
          interval : {"daily", "weekly", "monthly"}]
    \cup [op : {"cost_breakdown"}, scope : {"user", "company"}, interval : {"none"}]

\* what a service call hands back: a value (a dict or the fields of a
\* dataclass), or an exception
Returns(value) == [raised |-> FALSE, value |-> value]
RaisesError == [raised |-> TRUE, value |-> << >>]

RECURSIVE SumOf(_, _)
SumOf(routes, field) ==
    IF routes = <<>> THEN 0 ELSE Head(routes)[field] + SumOf(Tail(routes), field)

\* reading these attributes off a CalculatedRoute row: AttributeError for a
\* name the model class does not have
HasAttributes(names) == names \subseteq CalculatedRouteAttributes

RouteStatisticsFields == {"total_routes", "total_distance", "total_cost", "total_savings",
                          "average_distance", "average_cost", "average_savings"}

_empty_statistics == [f \in RouteStatisticsFields |-> 0]

\* the totals over a window that is not empty
RouteTotals(routes) ==
    [f \in RouteStatisticsFields |->
        IF f = "total_routes" THEN Len(routes)
        ELSE IF f = "total_cost"
            THEN SumOf(routes, "fuel_cost") + SumOf(routes, "toll_cost")
        ELSE IF f = "average_cost"
            THEN (SumOf(routes, "fuel_cost") + SumOf(routes, "toll_cost")) \div Len(routes)
        ELSE 0]

get_user_statistics(routes) ==
    IF routes = <<>> THEN Returns(_empty_statistics)
    ELSE IF ~HasAttributes({"distance_km", "total_cost", "estimated_savings"})
        THEN RaisesError
    ELSE Returns(RouteTotals(routes))

\* the company row exists; _get_top_users and _get_top_vehicles answer [] when
\* their query fails
get_company_statistics(routes) ==
    IF routes # <<>> /\ ~HasAttributes({"distance_km", "total_cost", "estimated_savings"})
        THEN RaisesError
    ELSE Returns(IF routes = <<>> THEN _empty_statistics ELSE RouteTotals(routes))

\* _group_by_day, _group_by_week, _group_by_month: the sums over the buckets
get_trend_data(routes, interval) ==
    IF interval \notin {"daily", "weekly", "monthly"} THEN RaisesError
    ELSE IF routes # <<>> /\ ~HasAttributes({"created_at", "total_cost",
                                             "estimated_savings", "distance_km"})
        THEN RaisesError
    ELSE Returns([f \in {"route_counts", "total_costs", "total_savings",
                         "average_distances"} |->
                     IF f = "route_counts" THEN Len(routes)
                     ELSE IF f = "total_costs"
                         THEN SumOf(routes, "fuel_cost") + SumOf(routes, "toll_cost")
                     ELSE 0])

EmptyCostBreakdownKeys ==
    {"total_fuel_cost", "total_toll_cost", "fuel_percentage", "toll_percentage",
     "average_fuel_per_km", "average_toll_per_km", "routes_with_tolls", "toll_free_routes"}

CostBreakdownKeys == EmptyCostBreakdownKeys \cup {"total_routes", "total_distance"}

get_cost_breakdown_analysis(routes) ==
    IF routes = <<>> THEN Returns([k \in EmptyCostBreakdownKeys |-> 0])
    ELSE IF ~HasAttributes({"fuel_cost", "toll_cost", "distance_km"}) THEN RaisesError
    ELSE LET total_fuel_cost == SumOf(routes, "fuel_cost")
             total_toll_cost == SumOf(routes, "toll_cost")
             total_cost == total_fuel_cost + total_toll_cost
             routes_with_tolls == Cardinality({i \in 1..Len(routes) : routes[i].toll_cost > 0})
         IN  Returns([k \in CostBreakdownKeys |->
                 CASE k = "total_fuel_cost" -> total_fuel_cost
                   [] k = "total_toll_cost" -> total_toll_cost
                   [] k = "fuel_percentage" ->
                        IF total_cost > 0 THEN (total_fuel_cost * 100) \div total_cost ELSE 0
                   [] k = "toll_percentage" ->
                        IF total_cost > 0 THEN (total_toll_cost * 100) \div total_cost ELSE 0
                   [] k = "routes_with_tolls" -> routes_with_tolls
                   [] k = "toll_free_routes" -> Len(routes) - routes_with_tolls
                   [] k = "total_routes" -> Len(routes)
                   [] OTHER -> 0])

\* a statistics endpoint: the service call and the response built from its
\* result inside the handler's try block; an exception there, the KeyError
\* of a missing key included, is answered with 500
StatisticsResponse(status, body) == [status |-> status, body |-> body]

StatisticsEndpoint(request, routes) ==
    LET r == CASE request.op = "user" -> get_user_statistics(routes)
               [] request.op = "company" -> get_company_statistics(routes)
               [] request.op = "trends" -> get_trend_data(routes, request.interval)
               [] request.op = "cost_breakdown" -> get_cost_breakdown_analysis(routes)
    IN  IF r.raised THEN StatisticsResponse(500, << >>)
        ELSE IF request.op = "cost_breakdown" /\ ~(CostBreakdownKeys \subseteq DOMAIN r.value)
            THEN StatisticsResponse(500, << >>)
        ELSE StatisticsResponse(200, r.value)

GetStatistics ==
    /\ ~stats.done
    /\ stats' = [stats EXCEPT !.done = TRUE,
                              !.response = StatisticsEndpoint(stats.request, stats.routes)]
    /\ UNCHANGED <<vehicleVars, rateVars, dbVars, calc, opt, cmp, toll, score, authVars, http,
                   validation, answer, tasks>>

\* validate_complete_vehicle called on a vehicle_data dict
ValidateCompleteVehicle ==
    /\ ~validation.done
    /\ validation' = [validation EXCEPT
                         !.done = TRUE,
                         !.result = validate_complete_vehicle(validation.vehicle_data)]
    /\ UNCHANGED <<vehicleVars, rateVars, dbVars, calc, opt, cmp, toll, score, authVars, http,
                   stats, answer, tasks>>

-----------------------------------------------------------------------------
(* Specifications *)

InitVehicleState ==
    /\ vehicles = InitVehicles
    /\ calculated_routes = InitCalculatedRoutes
    /\ pc = [p \in Procs |-> "idle"]
    /\ sess = [p \in Procs |-> Idle]
    /\ last = NoResponse
    /\ ops = 0

InitDbState ==
    /\ db_sessions = [r \in DbRequests |-> NoSession]

InitRouteState ==
    /\ calc = NoCalc

InitAuthState ==
    /\ users = InitUsers
    /\ tokens = {}
    /\ auth_last = NoAuthResponse

\* no call of the route analysis functions
InitOtherState ==
    /\ score = NULL
    /\ InitAuthState
    /\ http = NoHttp
    /\ stats = NULL
    /\ validation = NULL
    /\ answer = NULL
    /\ tasks = NoTasks

\* no call of optimize_route, _compare_two_routes or _get_toll_cost_for_vehicle
InitPureState ==
    /\ opt = NULL
    /\ cmp = NULL
    /\ toll = NULL
    /\ InitOtherState

InitServices == InitVehicleState /\ InitRateState /\ InitDbState /\ InitRouteState

Init == InitServices /\ InitPureState

\* requests served one at a time, by one request slot
Next ==
    \/ \E u \in Users, id \in VehicleIds \cup {MissingId} : GetVehicle(1, u, id)
    \/ \E u \in Users, c \in Companies \cup {NULL}, a \in {NULL, "true", "false"} :
           GetVehicles(1, u, c, a)
    \/ \E u \in Users, c \in Companies : GetCompanyVehicles(1, u, c)
    \/ \E u \in Users, id \in VehicleIds \cup {MissingId} : CalculateFuelCost(1, u, id)
    \/ \E u \in Users, g \in AdminGuards : AdminGuardRequest(1, u, g)
    \/ \E u \in Users, req \in CreateRequests : CreateBegin(1, u, req)
    \/ \E u \in Users, id \in VehicleIds \cup {MissingId}, req \in UpdateRequests :
           UpdateBegin(1, u, id, req)
    \/ \E u \in Users, id \in VehicleIds \cup {MissingId} : DeleteBegin(1, u, id)
    \/ Commit(1)

Spec == Init /\ [][Next]_vars

\* requests that write license plates, as the concurrent specification sends them
PlateCreateRequests == {r \in CreateRequests : r.max_weight = NONE /\ r.empty_weight = NONE}
PlateUpdateRequests == {r \in UpdateRequests : DOMAIN r = {"license_plate"}}

\* requests served concurrently, each in its own session and transaction
NextConc ==
    \/ \E p \in Procs, u \in Users, req \in PlateCreateRequests : CreateBegin(p, u, req)
    \/ \E p \in Procs, u \in Users, id \in VehicleIds, req \in PlateUpdateRequests :
           UpdateBegin(p, u, id, req)
    \/ \E p \in Procs, u \in Users, id \in VehicleIds : DeleteBegin(p, u, id)
    \/ \E p \in Procs : Commit(p)

SpecConc == Init /\ [][NextConc]_vars

\* route calculations and their history saves, interleaved with the deletion
\* of vehicles
NextHist ==
    \/ \E u \in Users, id \in VehicleIds \cup {MissingId}, o \in CalcOutcomes :
           CalculateRoute(u, id, o)
    \/ SaveRouteCalculation
    \/ \E u \in Users, id \in VehicleIds : DeleteBegin(1, u, id)
    \/ Commit(1)

SpecHist == Init /\ [][NextHist]_vars

\* optimize_route applied to each request
InitOpt ==
    /\ InitServices
    /\ opt \in {[in |-> r, out |-> NoResponseOpt] : r \in RouteRequests(MaxRoutes) \cup FuelRequests(MaxFuelRows)}
    /\ cmp = NULL
    /\ toll = NULL
    /\ InitOtherState

NextOpt == OptimizeRoute

SpecOpt == InitOpt /\ [][NextOpt]_vars

\* _compare_two_routes applied to each pair of routes
InitCmp ==
    /\ InitServices
    /\ opt = NULL
    /\ cmp \in {[route_a |-> a, route_b |-> b, out |-> NoComparison] :
                    a \in ComparedRoutes, b \in ComparedRoutes}
    /\ toll = NULL
    /\ InitOtherState

NextCmp == CompareTwoRoutes

SpecCmp == InitCmp /\ [][NextCmp]_vars

\* the toll cost computed for each toll record and vehicle
InitToll ==
    /\ InitServices
    /\ opt = NULL
    /\ cmp = NULL
    /\ toll \in {TollCase(t, v) : t \in TollRecords, v \in TollVehicles}
    /\ InitOtherState

NextToll == GetTollCost

SpecToll == InitToll /\ [][NextToll]_vars

\* _calculate_weighted_score applied to each criteria, preferences and scores
InitScore ==
    /\ InitServices
    /\ opt = NULL
    /\ cmp = NULL
    /\ toll = NULL
    /\ InitAuthState
    /\ http = NoHttp
    /\ stats = NULL
    /\ validation = NULL
    /\ answer = NULL
    /\ tasks = NoTasks
    /\ score \in {ScoreCase(c, t, d, l, criteria, p) :
                    c \in NormalizedScores, t \in NormalizedScores,
                    d \in NormalizedScores, l \in NormalizedScores,
                    criteria \in OptimizationCriteria, p \in UserPreferences}

NextScore == CalculateWeightedScore

SpecScore == InitScore /\ [][NextScore]_vars

\* logins and requests of token holders, while accounts are disabled and enabled
NextAuth ==
    \/ \E d \in LoginData : Login(d)
    \/ \E t \in tokens \cup {NULL} : VerifyEmail(t)
    \/ \E t \in tokens \cup {NULL} : GetCurrentUserInfo(t)
    \/ \E id \in DOMAIN users : DeactivateUser(id)
    \/ \E id \in DOMAIN users : ReactivateUser(id)

SpecAuth == Init /\ [][NextAuth]_vars

\* requests through the middleware stack, with handlers ending in every way
NextStack ==
    \E ip \in ClientIps, a \in Authorizations, path \in Paths, outcome \in HandlerOutcomes :
        ServeRequest(ip, a, path, outcome)

SpecStack == Init /\ [][NextStack]_vars

\* every statistics endpoint over every window of routes
InitStats ==
    /\ InitServices
    /\ opt = NULL
    /\ cmp = NULL
    /\ toll = NULL
    /\ score = NULL
    /\ InitAuthState
    /\ http = NoHttp
    /\ validation = NULL
    /\ answer = NULL
    /\ tasks = NoTasks
    /\ stats \in {[request |-> q, routes |-> w, done |-> FALSE,
                    response |-> StatisticsResponse(0, << >>)] :
                       q \in StatisticsRequests, w \in RouteWindows(MaxWindowRoutes)}

NextStats == GetStatistics

SpecStats == InitStats /\ [][NextStats]_vars

\* route calculations, each on the session of get_db, and their history saves
NextTasks ==
    \/ \E r \in DbRequests : GetDb(r)
    \/ \E r \in DbRequests, u \in Users, id \in VehicleIds \cup {MissingId},
          o \in CalcOutcomes : CalculateRouteEnds(r, u, id, o)
    \/ \E r \in DbRequests : ExceptClause(r)
    \/ \E r \in DbRequests : FinallyClause(r)
    \/ \E r \in DbRequests : RunSaveTask(r)

SpecTasks == Init /\ [][NextTasks]_vars

\* calculate_route on each list of routes and each optimize_for
InitAnswer ==
    /\ InitServices
    /\ opt = NULL
    /\ cmp = NULL
    /\ toll = NULL
    /\ score = NULL
    /\ InitAuthState
    /\ http = NoHttp
    /\ stats = NULL
    /\ validation = NULL
    /\ tasks = NoTasks
    /\ answer \in {[routes |-> r, optimize_for |-> o, done |-> FALSE, out |-> NoAnswer] :
                     r \in AnalysedLists(MaxAnalysed), o \in OptimizeFor}

NextAnswer == AnswerAndSave

SpecAnswer == InitAnswer /\ [][NextAnswer]_vars

\* validate_complete_vehicle applied to each vehicle_data dict
InitValidation ==
    /\ InitServices
    /\ opt = NULL
    /\ cmp = NULL
    /\ toll = NULL
    /\ score = NULL
    /\ InitAuthState
    /\ http = NoHttp
    /\ stats = NULL
    /\ answer = NULL
    /\ tasks = NoTasks
    /\ validation \in {[vehicle_data |-> d, done |-> FALSE,
                         result |-> validate_complete_vehicle(EmptyDict)] : d \in VehicleData}

NextValidation == ValidateCompleteVehicle

SpecValidation == InitValidation /\ [][NextValidation]_vars

\* the middleware pipeline under a stream of requests
NextRate ==
    \/ \E ip \in ClientIps, h \in Headers, path \in Paths : HttpRequest(ip, h, path)
    \/ \E t \in Instants : Tick(t)

SpecRate == Init /\ [][NextRate]_vars

\* requests each holding a session of their own
NextDb ==
    \/ \E r \in DbRequests : GetDb(r)
    \/ \E r \in DbRequests : HandlerReturns(r)
    \/ \E r \in DbRequests : HandlerRaises(r)
    \/ \E r \in DbRequests : HandlerCancelled(r)
    \/ \E r \in DbRequests : ExceptClause(r)
    \/ \E r \in DbRequests : FinallyClause(r)

SpecDb == Init /\ [][NextDb]_vars

-----------------------------------------------------------------------------
(* Properties of the vehicles router and the permission guards *)

VehicleServiceOps == {"get_vehicle", "get_vehicles", "update_vehicle", "delete_vehicle",
                      "calculate_fuel_cost", "get_company_vehicles"}

Succeeded(r) == r.status \in {200, 201, 204}

\* C1: every VehicleService operation that succeeds for a non-admin caller has
\* read, listed, changed or removed vehicles of the caller's own company only,
\* whatever company_id the caller asked for.
C1_TenantIsolation ==
    (last.op \in VehicleServiceOps /\ last.role # ADMIN /\ Succeeded(last))
        => last.companies \subseteq {last.user_company}

\* an operator listed vehicles while asking for another company's and got its own
C1_Witness ==
    /\ last.op = "get_vehicles" /\ last.role = OPERATOR /\ last.status = 200
    /\ last.arg \in Companies /\ last.arg # last.user_company
    /\ last.companies = {last.user_company}

\* C2: an active operator is answered 403 by every admin-only guard.
C2_OperatorRejected ==
    (last.op \in AdminGuards /\ last.role = OPERATOR
        /\ \E u \in Users : u.id = last.user /\ u.is_active)
        => last.status = 403

\* an active operator has just been turned away by the toll-management guard
C2_Witness ==
    /\ last.op = "require_toll_management" /\ last.user = "u_op1" /\ last.status = 403

C8_CreatedVehicleHasRequestedCompany ==
    \A p \in Procs :
        (pc[p] = "commit" /\ sess[p].op = "create")
            => sess[p].db_vehicle.company_id = sess[p].company_id

\* C9: every stored vehicle with both weights set has empty_weight < max_weight.
C9_WeightsOrdered ==
    \A r \in vehicles :
        (r.max_weight # NONE /\ r.empty_weight # NONE) => r.empty_weight < r.max_weight

\* C10: no two stored vehicles have the same normalized license plate, under
\* every interleaving of concurrent creates and updates.
C10_UniquePlates ==
    \A r1, r2 \in vehicles :
        r1.id # r2.id => normalize_plate(r1.license_plate) # normalize_plate(r2.license_plate)

\* two updates raced for one plate: one holds it, the other's commit was refused
C10_Witness ==
    /\ last.op = "update_vehicle" /\ last.status = 500
    /\ \E r \in vehicles : r.license_plate = PLATE_123ABC
    /\ \A r \in InitVehicles : \E q \in vehicles : q.id = r.id

-----------------------------------------------------------------------------
(* Properties of the rate limiter *)

Limited(r) == r.ip # NULL /\ ~RateExempt(r.path)
Admitted(r) == r.status = 200 /\ r.handled
Rejected429(r) == r.status = 429 /\ r.retry_after = "60" /\ ~r.handled

\* how many of the requests logged up to the i-th went to a handler from the same
\* ip within the window that ends with the i-th
AdmittedInWindow(i) ==
    Cardinality({j \in 1..i : /\ rl_log[j].ip = rl_log[i].ip
                              /\ rl_log[j].admitted
                              /\ rl_log[i].t - rl_log[j].t <= window_size})

\* C3: a request to a non-exempt path that arrives when its ip has had
\* RequestsPerMinute requests admitted in the preceding 60 seconds is answered 429
\* with Retry-After: 60 and reaches no handler, so that no rolling 60-second
\* window holds more than RequestsPerMinute admitted requests of one ip.
C3_IpLimit ==
    /\ (Limited(rl_last) /\ rl_last.prior_ip >= RequestsPerMinute) => Rejected429(rl_last)
    /\ \A i \in 1..Len(rl_log) : rl_log[i].admitted => AdmittedInWindow(i) <= RequestsPerMinute

\* the ip used up its limit at the start and is turned away on the last instant
\* of the window
C3_Witness ==
    /\ Limited(rl_last) /\ rl_last.prior_ip = RequestsPerMinute /\ rl_last.by = "ip"
    /\ Rejected429(rl_last) /\ rl_last.since_admitted = window_size

C5_UserLimitOnEveryRequest ==
    (rl_last.sub # NULL /\ rl_last.prior_user >= RequestsPerMinute)
        => rl_last.status = 429

\* C5 (amended): on paths that neither the rate limiter exempts nor the auth
\* middleware skips, the rate limiter finds the user id of a valid bearer token
\* on the request state, and once RequestsPerMinute such requests of that user
\* were admitted within the window, from whatever ips, the next is answered 429.
C5_UserLimit ==
    (rl_last.sub # NULL /\ Limited(rl_last) /\ ~AuthExcluded(rl_last.path))
        => /\ rl_last.user = rl_last.sub
           /\ rl_last.prior_user >= RequestsPerMinute => Rejected429(rl_last)

\* the user's requests came from two ips, and a further one is turned away by
\* the per-user check although its ip is within its own limit
C5_Witness ==
    /\ rl_last.sub # NULL /\ rl_last.user = rl_last.sub /\ rl_last.by = "user" /\ Rejected429(rl_last)
    /\ rl_last.prior_ip < RequestsPerMinute
    /\ \E i, j \in 1..Len(rl_log) :
           /\ rl_log[i].user = rl_last.user /\ rl_log[j].user = rl_last.user
           /\ rl_log[i].admitted /\ rl_log[j].admitted
           /\ rl_log[i].ip # rl_log[j].ip

-----------------------------------------------------------------------------
(* Properties of the database session *)

Calls(s, call) == Cardinality({i \in 1..Len(s.calls) : s.calls[i] = call})

\* C6: a session obtained through get_db is never closed twice nor before its
\* request ends, has been closed exactly once when the request has ended, and
\* where an error was raised while the request was handled it was rolled back
\* before it was closed.
C6_SessionClosedOnce ==
    \A r \in DbRequests :
        LET s == db_sessions[r]
        IN  /\ Calls(s, "close") <= 1
            /\ s.pc # "done" => Calls(s, "close") = 0
            /\ s.pc = "done" => Calls(s, "close") = 1
            /\ (s.pc = "done" /\ s.outcome = "raised") => s.calls = <<"rollback", "close">>

\* one request ended with an error and one without: both sessions are closed,
\* the first rolled back before
C6_Witness ==
    \E r1, r2 \in DbRequests :
        /\ db_sessions[r1].pc = "done" /\ db_sessions[r1].outcome = "raised"
        /\ db_sessions[r1].calls = <<"rollback", "close">>
        /\ db_sessions[r2].pc = "done" /\ db_sessions[r2].outcome = "returned"
        /\ db_sessions[r2].calls = <<"close">>

-----------------------------------------------------------------------------
(* Properties of vehicle updates and deletions *)

\* the update of request slot p is committed and answered 200
UpdateSucceeds(p) ==
    /\ pc[p] = "commit" /\ sess[p].op = "update" /\ pc'[p] = "idle"
    /\ last'.op = "update_vehicle" /\ last'.status = 200

\* C11: when an update_vehicle succeeds, the stored vehicle holds the supplied,
\* normalized value in every field of the update request and its former value
\* in every other field.
C11_UpdateMergesSupplied ==
    [][\A p \in Procs :
          UpdateSucceeds(p) =>
              \E old \in vehicles, new \in vehicles' :
                  /\ old.id = sess[p].vehicle.id /\ new.id = old.id
                  /\ \A k \in DOMAIN new :
                         new[k] = IF k \in DOMAIN sess[p].update_data
                                  THEN sess[p].update_data[k] ELSE old[k]]_vars

\* the delete of request slot p is committed and answered 204
DeleteSucceeds(p) ==
    /\ pc[p] = "commit" /\ sess[p].op \in {"soft_delete", "hard_delete"} /\ pc'[p] = "idle"
    /\ last'.op = "delete_vehicle" /\ last'.status = 204

C14_HistoryRowReferences ==
    calc.task = "done" =>
        /\ calc.row.user_id = calc.user.id
        /\ calc.row.vehicle_id = calc.vehicle_id
        /\ calc.row.company_id = calc.user.company_id

\* C15: a history save is scheduled only by a calculation answered 200, and
\* when it fails the failure is logged, no exception leaves the background
\* task, and the response stays the 200 the client received.
C15_SaveFailureSwallowed ==
    /\ calc.task # "none" => calc.status = 200
    /\ calc.task = "done" =>
           /\ calc.status = 200
           /\ ~calc.raised
           /\ calc.log = IF calc.row \in calculated_routes THEN "saved" ELSE "error"

\* a history save failed after its calculation was answered 200
C15_Witness ==
    /\ calc.task = "done" /\ calc.status = 200 /\ calc.log = "error"

\* C16: in a response of optimize_route, no route has a lower total cost than
\* the recommended route.
C16_RecommendedIsCheapest ==
    opt.out.status = "ok" =>
        \A i \in 1..Len(opt.out.routes) :
            opt.out.routes[opt.out.recommended].total_cost <= opt.out.routes[i].total_cost

\* the recommended route is not the fastest one, which costs more
C16_Witness ==
    /\ opt.out.status = "ok"
    /\ opt.out.recommended > 1
    /\ opt.out.routes[opt.out.recommended].total_cost < opt.out.routes[1].total_cost

\* C17: in a response of optimize_route, total_savings is the total cost of
\* the first (fastest) route minus that of the recommended route, it is zero
\* when the recommended route is the first route, and it is never negative.
C17_TotalSavings ==
    opt.out.status = "ok" =>
        /\ opt.out.total_savings = opt.out.routes[1].total_cost
                                       - opt.out.routes[opt.out.recommended].total_cost
        /\ opt.out.recommended = 1 => opt.out.total_savings = 0
        /\ opt.out.total_savings >= 0

\* a response with savings, and with a toll making the fastest route dearer
C17_Witness ==
    /\ opt.out.status = "ok"
    /\ opt.out.total_savings > 0
    /\ opt.out.routes[1].total_toll_cost > 0

\* the route a comparison should name: the cheaper one
Cheaper(c) == IF c.route_a.total_cost < c.route_b.total_cost THEN "route_0" ELSE "route_1"

\* C18: when the total costs of two compared routes differ by at least ARS 10,
\* the recommendation names the cheaper route, in either order of the two.
C18_RecommendsCheaper ==
    (/\ cmp.out # NoComparison
     /\ Abs(cmp.route_a.total_cost - cmp.route_b.total_cost) >= SimilarCost)
        => cmp.out.recommendation.route = Cheaper(cmp)

\* the tariff of the toll for the category of the vehicle
CategoryTariff(t) ==
    IF t.category = "truck" THEN t.toll_record.cost_truck
    ELSE IF t.category = "motorcycle" THEN t.toll_record.cost_motorcycle
    ELSE t.toll_record.cost_car

\* C19: a toll with no tariff for the category of a truck or motorcycle is
\* charged to it at the car tariff of the toll.
C19_UnsetTariffChargedAsCar ==
    (/\ toll.done
     /\ toll.category \in {"truck", "motorcycle"}
     /\ CategoryTariff(toll) = NONE
     /\ toll.toll_record.cost_car # NONE)
        => toll.cost = toll.toll_record.cost_car

\* the active fuel_prices rows of the fuel type of the request
ActiveRows(in) == {r \in in.rows : r.fuel_type = in.fuel_type /\ r.is_active}

\* C20: optimize_route uses the price of a fuel_prices row only if that row is
\* the most recently updated active row of the vehicle's fuel type and was
\* updated at most 30 days ago; in every other case the response carries the
\* default-price warning and the price is the default price of the fuel type.
C20_FuelPriceCurrentOrDefault ==
    opt.out.status = "ok" =>
        IF "default_fuel_price" \in opt.out.warnings
            THEN opt.out.fuel_price = _get_default_fuel_price(opt.in.fuel_type)
        ELSE \E r \in ActiveRows(opt.in) :
                 /\ r.age # NONE
                 /\ r.age <= MaxPriceAgeDays * HoursPerDay
                 /\ \A q \in ActiveRows(opt.in) : q.age # NONE => r.age <= q.age
                 /\ opt.out.fuel_price = r.price_per_liter

-----------------------------------------------------------------------------
(* Properties of the route analysis *)

\* C21: for every optimization criteria and every combination of the flags
\* prioritize_cost, prioritize_time and avoid_tolls, the weighted total score
\* lies in [0,1] whenever the four normalized scores lie in [0,1].
C21_WeightedScoreInUnitInterval ==
    (score.done
        /\ \A m \in {score.cost_score, score.time_score,
                      score.distance_score, score.toll_score} : 0 <= m /\ m <= Unit)
    => (0 <= score.total_score /\ score.total_score <= Unit * Unit)

\* every flag set and every score at 1.0: the total score reaches 1.0
C21_Witness ==
    /\ score.done
    /\ score.user_preferences = [prioritize_cost |-> TRUE, prioritize_time |-> TRUE,
                                 avoid_tolls |-> TRUE]
    /\ score.total_score = Unit * Unit

-----------------------------------------------------------------------------
(* Properties of the authentication service *)

\* C22: while a user's is_active flag is false, nothing succeeds on the user's
\* behalf: login_user is rejected, and every endpoint that resolves its caller
\* through get_current_active_user rejects a request carrying the user's token.
C22_InactiveUserRejected ==
    [][\A id \in DOMAIN users :
          (~users[id].is_active /\ auth_last'.n # auth_last.n /\ auth_last'.user = id)
          => auth_last'.status >= 400]_vars

\* a user who logged in, was disabled and then asked for /auth/me with the token
C22_Witness ==
    /\ auth_last.op = "get_current_user_info"
    /\ auth_last.user \in tokens
    /\ ~users[auth_last.user].is_active
    /\ auth_last.status = 400

-----------------------------------------------------------------------------
(* Properties of the middleware stack *)

\* the Authorization header is malformed, or its token fails verification
UnusableAuthorization(authorization) ==
    /\ authorization # <<>>
    /\ \/ Len(authorization) # 2
       \/ SchemeLower(authorization[1]) # "bearer"
       \/ ~verify_token(authorization[2]).ok

\* C23: a request to a non-excluded path whose Authorization header is malformed
\* or whose token fails verification is still forwarded to the inner chain, with
\* no user identity on the request state; the auth-context middleware never
\* rejects such a request itself.
C23_UnusableHeaderForwarded ==
    (http.n > 0 /\ ~AuthExcluded(http.path) /\ UnusableAuthorization(http.authorization))
    => (http.call_next /\ http.user_id = NULL)

\* a request with an expired token that reached its handler unauthenticated
C23_Witness ==
    /\ http.n > 0
    /\ ~AuthExcluded(http.path)
    /\ http.authorization = <<"Bearer", "expired">>
    /\ http.call_next
    /\ http.handled
    /\ http.response.status = 200

\* C24: every HTTP response the application sends carries an X-Process-Time
\* header, including 429 rejections, 4xx/5xx error responses, and responses on
\* paths excluded from auth and rate limiting whose handler raised an
\* unexpected error.
C24_ProcessTimeOnEveryResponse ==
    http.n > 0 => "X-Process-Time" \in http.response.headers

\* a handler on /health that raised an unexpected error, answered with 500
C24_Witness ==
    /\ http.n > 0
    /\ AuthExcluded(http.path)
    /\ RateExempt(http.path)
    /\ http.outcome = "Exception"
    /\ http.response.status = 500
    /\ "X-Process-Time" \in http.response.headers

-----------------------------------------------------------------------------
(* Properties of the statistics endpoints *)

\* C25: when no route falls within the requested window, every statistics
\* operation (user, company, trend, cost-breakdown) and its endpoint returns an
\* all-zero result instead of raising or answering with an error status.
C25_EmptyWindowAllZero ==
    (stats.done /\ stats.routes = <<>>)
    => /\ stats.response.status = 200
       /\ \A k \in DOMAIN stats.response.body : stats.response.body[k] = 0

-----------------------------------------------------------------------------
(* Properties of the vehicle validators *)

\* C26: validate_complete_vehicle reports every failing field: if k distinct
\* fields of the input are invalid (for example both height and width), the
\* single aggregated error contains a message for each of those k fields, so
\* no failure hides another.
C26_EveryFailingFieldReported ==
    validation.done
    => InvalidFields(validation.vehicle_data) \subseteq validation.result.about

-----------------------------------------------------------------------------
(* Properties of the route calculation endpoint *)

\* C27: POST /routes/calculate never computes a route with a vehicle that
\* belongs to a company other than the caller's: a non-admin caller who
\* supplies another company's vehicle_id is rejected (no 200 response with
\* cost data derived from that vehicle).
C27_ForeignVehicleRejected ==
    [][(/\ calc'.n # calc.n
        /\ calc'.user.role # ADMIN
        /\ QueryById(calc'.vehicle_id).company_id # calc'.user.company_id)
       => calc'.status # 200]_vars

\* C28: for every route calculation and every optimize_for value, the route
\* persisted to history is the same route the client received as
\* recommended_route (same distance, duration and costs), and the savings
\* stored with it are the savings reported for that route.
C28_SavedRouteIsRecommended ==
    answer.done =>
        /\ answer.out.row.route = answer.out.response.recommended_route
        /\ answer.out.row.estimated_savings = answer.out.response.savings_amount

\* C29: the background history-save task never operates on the request's
\* database session after get_db has closed it: whenever the task adds,
\* commits or rolls back, the session it was handed is still open.
C29_TaskOnOpenSession ==
    \A r \in DbRequests :
        LET calls == db_sessions[r].calls
        IN  \A i, j \in DOMAIN calls :
                (calls[i] = "close" /\ calls[j] \in TaskCalls) => j < i

-----------------------------------------------------------------------------
(* Frame of a rejected request *)

\* queue after is what is left of queue before once old entries were dropped
IsSuffix(after, before) ==
    \E k \in 0..Len(before) : after = SubSeq(before, k + 1, Len(before))

\* C30: a request answered with 429 adds no timestamp to any rate-limit
\* queue; in particular a request rejected by the per-user limit does not
\* consume a slot of its client IP's quota.
C30_RejectedAddsNoTimestamp ==
    [][rl_last'.status = 429
       => /\ \A ip \in DOMAIN ip_requests : IsSuffix(ip_requests'[ip], ip_requests[ip])
          /\ \A u \in DOMAIN user_requests :
                 IsSuffix(user_requests'[u], user_requests[u])]_vars

====
